---- MODULE Spec2Model ----
(***************************************************************************)
(* Model of the sccor coroutine kernel (src/code/mt.cpp), System V AMD64    *)
(* build (the __APPLE__/__MACH__ branch of every #if).                      *)
(*                                                                          *)
(* Memory is modelled in machine words.  The coroutine storage area is the  *)
(* sequence csa (csa[1] is the word at address csa, Len(csa) is the offset  *)
(* csavail - csa).  The live stack is the sequence stack, holding the words *)
(* of the addresses [rsp, base - 2) from the lowest address upwards, which  *)
(* is the region popCoroutine fills and coresume saves.                     *)
(*                                                                          *)
(* A machine word is a signed integer of WordBits bits whose top 8 bits are *)
(* the descriptor's flag byte; the source has 64 = 56 + 8 bits, the model   *)
(* FlagShift + 8, so that the shifts, masks and sign tests of the code keep *)
(* their meaning inside TLC's integers.                                     *)
(***************************************************************************)
EXTENDS Integers, Sequences, FiniteSets, TLC

\* ------------------------------------------------------------------ bounds
\* Largest n the host passes to cobegin.
MaxN == 3
\* Number of distinct entry functions (coroutines spawned in one run, by
\* cobegin and invoke together).
MaxCo == 3
\* Largest number of parameters of an entry function; the entry functions
\* have 0, 1 and MaxArgc parameters.
MaxArgc == 3
\* Number of coresume calls made at most in one run.
MaxYields == 6
\* Number of invoke calls made at most in one run.
MaxInvokes == 2
\* Bits of a word below the flag byte (56 in the source).
FlagShift == 16

\* ------------------------------------------------------- program constants
IN_REGISTERS_COUNT == 6
CLEANUP_OFFSET == 9
LONG_COUNT == 2
EXTRA_STACK == 60
FILLER_VALUE == -1

\* ------------------------------------------------- addresses (word units)
\* The value setBase reads from rbp when cobegin calls it.
HostBase == 4000
\* cobegin's own frame pointer, *base.
HostRBP == 4010
\* Code addresses: cleanup, the host's call of cobegin and the instruction
\* after it, the entry of coroutine function f and the return address of
\* the coresume call in f's body; BodyAddr(f) is the point of f's body
\* at which f decides its next call.
CleanupAddr == 20000
HostCall == 20500
HostRet == 20501
EntryAddr(f) == 21000 + 100 * f
BodyAddr(f) == EntryAddr(f) + 10
ResumeAddr(f) == EntryAddr(f) + 50
FuncOf(addr) == (addr - 21000) \div 100
IsEntry(addr) == \E f \in 1..MaxCo : addr = EntryAddr(f)
IsResume(addr) == \E f \in 1..MaxCo : addr = ResumeAddr(f)

\* The i-th argument word the model's callers pass to coroutine f.
ArgVal(f, i) == 100 * f + i
Args(f, argc) == [i \in 1..argc |-> ArgVal(f, i)]
\* The number of parameters of entry function f, which is the argument
\* count its spawner passes.
ArgcChoice == << 0, 1, MaxArgc >>
ArgcOf(f) == ArgcChoice[((f - 1) % 3) + 1]

\* ------------------------------------------------------------------- words
WordBits == FlagShift + 8
Pow2(n) == 2 ^ n
\* A value truncated to a (signed) long.
ToLong(x) ==
  LET m == x % Pow2(WordBits)
  IN  IF m >= Pow2(WordBits - 1) THEN m - Pow2(WordBits) ELSE m
\* (int8_t) x and (uint8_t) x.
ToInt8(x) == LET m == x % 256 IN IF m >= 128 THEN m - 256 ELSE m
ToUint8(x) == x % 256
\* 0x80 | x for a byte x.
Or80(x) == IF (x % 256) >= 128 THEN x % 256 ELSE (x % 256) + 128
\* a | b for two bytes.
RECURSIVE BitOr(_, _)
BitOr(a, b) ==
  IF a = 0 THEN b
  ELSE IF b = 0 THEN a
  ELSE 2 * BitOr(a \div 2, b \div 2) + (IF a % 2 = 1 \/ b % 2 = 1 THEN 1 ELSE 0)
\* coroutineSize |= (long)mark << 56
MarkSize(size, mark) ==
  LET u == size % Pow2(WordBits)
  IN  ToLong(BitOr(u \div Pow2(FlagShift), mark) * Pow2(FlagShift) + (u % Pow2(FlagShift)))
\* ((int8_t)(_size >> 56)) & 0x7F
MarkOf(w) == (w \div Pow2(FlagShift)) % 128
\* _size & 0x00ffffffffffffff
MaskSize(w) == w % Pow2(FlagShift)

\* ------------------------------------------------------------- sequences
Last(s) == s[Len(s)]
Fill(n, w) == [i \in 1..n |-> w]

\* ----------------------------------------------------------------- spawn
\* The words one pass of cobegin's while loop appends to the csa for entry
\* function address co with the argument words args, argCount = Len(args)
\* as the caller states it; b is base.
cobeginImage(b, co, argCountIn, args) ==
  LET argCount == ToInt8(argCountIn)
      head == << 0, b, co, ToLong(CleanupAddr + CLEANUP_OFFSET) >>
      body == IF argCount > 0
              THEN [i \in 1..argCount |-> args[i]]
                   \o (IF argCount % 2 = 1 THEN << FILLER_VALUE >> ELSE << >>)
              ELSE IF argCount = 0 THEN << FILLER_VALUE, FILLER_VALUE >>
              ELSE << >>
      fillerCount == IF argCount > 0 THEN argCount % 2
                     ELSE IF argCount = 0 THEN 2 ELSE 0
      coroutineSize == argCount + fillerCount + LONG_COUNT + 2
      mark == Or80(ToUint8(argCount))
  IN  head \o body \o << MarkSize(coroutineSize, mark) >>

\* invoke that leaves the mark out of the descriptor it writes.
invokeImage_Unmarked(b, co, argCount, args) ==
  LET head == << 0, b, co, ToLong(CleanupAddr + CLEANUP_OFFSET) >>
      body == IF argCount > 0
              THEN [i \in 1..argCount |-> args[i]]
                   \o (IF argCount % 2 = 1 THEN << FILLER_VALUE >> ELSE << >>)
              ELSE IF argCount = 0 THEN << FILLER_VALUE, FILLER_VALUE >>
              ELSE << >>
      fillerCount == IF argCount > 0 THEN argCount % 2
                     ELSE IF argCount = 0 THEN 2 ELSE 0
      coroutineSize == argCount + fillerCount + LONG_COUNT + 2
  IN  head \o body \o << coroutineSize >>

\* The words invoke appends to the csa.
invokeImage(b, co, argCount, args) ==
  LET head == << 0, b, co, ToLong(CleanupAddr + CLEANUP_OFFSET) >>
      body == IF argCount > 0
              THEN [i \in 1..argCount |-> args[i]]
                   \o (IF argCount % 2 = 1 THEN << FILLER_VALUE >> ELSE << >>)
              ELSE IF argCount = 0 THEN << FILLER_VALUE, FILLER_VALUE >>
              ELSE << >>
      fillerCount == IF argCount > 0 THEN argCount % 2
                     ELSE IF argCount = 0 THEN 2 ELSE 0
      coroutineSize == argCount + fillerCount + LONG_COUNT + 2
      mark == Or80(ToUint8(argCount))
  IN  head \o body \o << MarkSize(coroutineSize, mark) >>

\* ---------------------------------------------------------- live stack
\* The word at address a of a stack region whose words seq end just below
\* the address top.
WordAt(seq, top, a) == seq[a - (top - Len(seq)) + 1]

\* ------------------------------------------------------------ popCoroutine
\* popCoroutine on the csa contents c with base b and the argument
\* registers regs (rdi, rsi, rdx, rcx, r8, r9).  Pointers into the csa are
\* word offsets from csa; offset k is the word c[k + 1].
popCoroutine(c, b, regs) ==
  LET avail1 == Len(c) - 1                       \* _size = *--csavail
      raw == c[avail1 + 1]
      p0 == avail1 - 1                           \* p = csavail - 1
      mark0 == IF raw < 0 THEN MarkOf(raw) ELSE 0
      size == IF raw < 0 THEN MaskSize(raw) ELSE raw
      baseMinusSize == b - size - 2
      avail2 == avail1 - size                    \* csavail -= _size
      img == [i \in 1..size |-> c[avail2 + i]]   \* memcpy
      p1 == IF mark0 > 0 /\ mark0 % 2 = 1 THEN p0 - 1 ELSE p0
      first_p == p1
      excessCount == ToInt8(mark0 - IN_REGISTERS_COUNT)
      mark1 == IF mark0 > IN_REGISTERS_COUNT THEN IN_REGISTERS_COUNT ELSE mark0
      p2 == IF mark0 > IN_REGISTERS_COUNT THEN p1 - excessCount ELSE p1
      \* memmove( baseMinusSize + 4, first_p - excessCount + 1, excessCount )
      img2 == IF mark0 > 0 /\ excessCount > 0
              THEN [i \in 1..size |->
                      IF i - 1 >= 4 /\ i - 1 < 4 + excessCount
                      THEN c[(first_p - excessCount + 1) + (i - 1 - 4) + 1]
                      ELSE img[i]]
              ELSE img
      \* switch ( mark ): register k is loaded from *(p - (mark - k))
      regs2 == [k \in 1..IN_REGISTERS_COUNT |->
                  IF mark0 > 0 /\ k <= mark1
                  THEN c[(p2 - (mark1 - k)) + 1]
                  ELSE regs[k]]
  IN  [csa |-> SubSeq(c, 1, avail2), img |-> img2, regs |-> regs2,
       size |-> size, mark |-> mark0, baseMinusSize |-> baseMinusSize]

\* A call site that lowers the stack pointer by the image's size only.
Lowered_NoExtra(rsp, c) == rsp - MaskSize(Last(c))
\* The stack pointer with which cobegin, coresume and cleanup call
\* popCoroutine on the csa contents c, rsp being theirs before:
\* _size = *(csavail - 1) & 0x00ffffffffffffff; _RSP -= _size + EXTRA_STACK
Lowered(rsp, c) == rsp - (MaskSize(Last(c)) + EXTRA_STACK)

\* The state in which the coroutine restored by popCoroutine stands at its
\* next decision point: popCoroutine's epilogue pops rbx and rbp and returns
\* to the third word of the image; an entry function then runs its prologue
\* (push rbp; two local words: the count of its coresume calls, and its
\* first argument register), a resumed one continues after its coresume.
Land(img, regs, top) ==
  LET rbx0 == img[1]
      rbp0 == img[2]
      ret == img[3]
      rest == SubSeq(img, 4, Len(img))
  IN  IF IsEntry(ret)
      THEN [rbx |-> rbx0, rip |-> BodyAddr(FuncOf(ret)),
            rbp |-> top - Len(rest) - 1,
            stack |-> << 0, regs[1], rbp0 >> \o rest, entered |-> TRUE]
      ELSE [rbx |-> rbx0, rip |-> IF IsResume(ret) THEN BodyAddr(FuncOf(ret)) ELSE ret,
            rbp |-> rbp0, stack |-> rest, entered |-> FALSE]

\* --------------------------------------------------------------- coresume
\* The two builds mt.cpp has branches for.
Builds == {"SystemV", "CYGWIN"}

\* coresume that steps three words down from rbp in the CYGWIN build.
BPXOf_Three(build, rbpC) == IF build = "CYGWIN" THEN rbpC - 3 ELSE rbpC - 1
\* _BPX as coresume computes it from its frame pointer rbpC: _BPX -= -1 in
\* the CYGWIN build, _BPX -= 1 in the other.
BPXOf(build, rbpC) == IF build = "CYGWIN" THEN rbpC - (-1) ELSE rbpC - 1
\* _size = (base - 2 - _BPX)
SavedSize(build, b, rbpC) == b - 2 - BPXOf(build, rbpC)

\* coresume that does not store the caller's frame.
coresumeSave_Dropped(c, b, frame, top, rbpC) == c

\* coresume that takes its own frame pointer for the start of the frame it
\* stores (no _BPX -= 1), leaving out the saved rbx.
coresumeSave_NoRbx(c, b, frame, top, rbpC) ==
  LET BPX == rbpC
      size == b - 2 - BPX
      saved == [i \in 1..size |-> WordAt(frame, top, BPX + i - 1)]
  IN  saved \o << size >> \o c

\* coresume that marks the descriptor it stores as that of a coroutine with
\* one argument that has not run.
coresumeSave_Marked(c, b, frame, top, rbpC) ==
  LET BPX == rbpC - 1
      size == b - 2 - BPX
      saved == [i \in 1..size |-> WordAt(frame, top, BPX + i - 1)]
  IN  saved \o << MarkSize(size, Or80(1)) >> \o c

\* coresume that stores the caller's frame without a descriptor word.
coresumeSave_NoSize(c, b, frame, top, rbpC) ==
  LET BPX == rbpC - 1
      size == b - 2 - BPX
      saved == [i \in 1..size |-> WordAt(frame, top, BPX + i - 1)]
  IN  saved \o c

\* coresume that stores the caller's frame on top of the csa instead of
\* opening a slot at its bottom.
coresumeSave_OnTop(c, b, frame, top, rbpC) ==
  LET BPX == rbpC - 1
      size == b - 2 - BPX
      saved == [i \in 1..size |-> WordAt(frame, top, BPX + i - 1)]
  IN  c \o saved \o << size >>

\* The csa after the first half of a switching coresume: frame holds the
\* words of the stack from coresume's saved rbx up to base - 2, rbpC is
\* coresume's frame pointer, top the address just above frame.
coresumeSave(c, b, frame, top, rbpC) ==
  LET BPX == rbpC - 1
      size == b - 2 - BPX
      saved == [i \in 1..size |-> WordAt(frame, top, BPX + i - 1)]
  IN  saved \o << size >> \o c

\* ------------------------------------------------------------------ state
\* csa, coroutineCount, base: the module variables of mt.cpp (csavail is
\* csa + Len(csa)).  stack, rip, rbp, rbx, argregs: the machine state of the
\* one OS thread.  events: the run's observable history, one record per
\* spawn, first entry, resumption, coresume call, return, and return of
\* cobegin to the host.
\* now: the reading of the clock, in ms.  cont, cancel: the two bool objects
\* the callers of waitEx point continuing and canceling to.  waits: for each
\* entry function the record of its last waitEx call.  given: for each entry
\* function the argument count its spawner stated (-1 before it is
\* spawned).  histo: a Histogram object; added: the values passed to its Add
\* since its construction or last Reset.
VARIABLES csa, coroutineCount, base, stack, rip, rbp, rbx, argregs, events,
          now, cont, cancel, waits, given, histo, added, tih

vars == << csa, coroutineCount, base, stack, rip, rbp, rbx, argregs, events,
           now, cont, cancel, waits, given, histo, added, tih >>

\* What the kernel itself never touches, and what a coroutine that waits
\* does not touch either.
rest == << given, histo, added, tih >>
user == << now, cont, cancel, waits, rest >>

\* The address just above the region of the stack that holds the live
\* coroutine: two words below the frame pointer setBase runs with.
StackTop == HostBase - 2

Ev(kind, f) == [k |-> kind, co |-> f]
Min(a, b) == IF a < b THEN a ELSE b

IsBody(addr) == \E f \in 1..MaxCo : addr = BodyAddr(f)
\* Number of coroutines spawned so far.
NSpawned == Cardinality({i \in DOMAIN events : events[i].k \in {"spawn", "invoke"}})

\* Number of invoke calls made so far.
NInvoked == Cardinality({i \in DOMAIN events : events[i].k = "invoke"})

\* Number of coresume calls made so far.
NYields == Cardinality({i \in DOMAIN events : events[i].k \in {"yield", "noop"}})

\* The record of a coroutine that has not called waitEx.
NoWait == [ms |-> 0, canceling |-> 0, t0 |-> 0, calls |-> 0, at |-> "none",
           elapsed |-> FALSE, stopped |-> FALSE, canceled |-> FALSE]

\* ------------------------------------------------------------- Histogram
\* Bits of an unsigned int (32 in the source).
UIntBits == 4
\* Largest min, countsPer and bins a Histogram is constructed with, and the
\* number of Add calls made at most since construction or the last Reset.
MaxMinBin == 1
MaxCountsPer == 2
MaxBins == 2
MaxAdds == 2

OVERN_TRACE_COUNT == 10

UINT_MAX == Pow2(UIntBits) - 1
\* A value truncated to an unsigned int.
UInt(x) == x % Pow2(UIntBits)

\* Histogram::Histogram( min, countsPer, bins ); junk is what the words of
\* overValueN, which the constructor does not set, happen to hold.
Histogram(min, countsPer, bins, junk) ==
  [minBin |-> min, countsPerBin |-> countsPer, nBins |-> bins,
   minData |-> UInt(min + countsPer * bins), maxData |-> min,
   maxFreq |-> 0, n |-> 0, summation |-> 0,
   binVector |-> [i \in 0..(bins + 1) |-> 0],
   overN |-> Fill(OVERN_TRACE_COUNT, 0),
   overValueN |-> Fill(OVERN_TRACE_COUNT, junk)]

\* Histogram::Reset()
Reset(h) ==
  [h EXCEPT !.minData = UInt(h.minBin + h.countsPerBin * h.nBins),
            !.maxData = h.minBin, !.maxFreq = 0, !.n = 0, !.summation = 0,
            !.binVector = [i \in 0..UInt(h.nBins + 1) |-> 0],
            !.overN = Fill(OVERN_TRACE_COUNT, 0)]

\* Add that takes the bin's number without the + 1.
targetBin_Low(h, data) ==
  LET t == IF data >= h.minBin
           THEN UInt((data - h.minBin) \div h.countsPerBin)
           ELSE 0
  IN  IF t > h.nBins THEN UInt(h.nBins + 1) ELSE t

\* targetBin as Add first computes it, and the bin Add counts data in.
rawBin(h, data) ==
  IF data >= h.minBin
  THEN UInt(UInt(data - h.minBin) \div h.countsPerBin + 1)
  ELSE 0
targetBin(h, data) ==
  IF rawBin(h, data) > h.nBins THEN UInt(h.nBins + 1) ELSE rawBin(h, data)

\* The first free entry of overN (0 if there is none).
FreeOver(h) ==
  LET free == {i \in 1..OVERN_TRACE_COUNT : h.overN[i] = 0}
  IN  IF free = {} THEN 0 ELSE CHOOSE i \in free : \A j \in free : i <= j

\* Histogram::Add( data )
Add(h, data) ==
  LET t == targetBin(h, data)
      over == rawBin(h, data) > h.nBins
      i == FreeOver(h)
      count == UInt(h.binVector[t] + 1)
  IN  [h EXCEPT !.overN = IF over /\ i > 0 THEN [@ EXCEPT ![i] = UInt(h.n + 1)] ELSE @,
                !.overValueN = IF over /\ i > 0 THEN [@ EXCEPT ![i] = data] ELSE @,
                !.binVector = [@ EXCEPT ![t] = count],
                !.maxFreq = IF count > @ THEN count ELSE @,
                !.summation = @ + data,
                !.n = UInt(@ + 1),
                !.minData = IF data < @ THEN data ELSE @,
                !.maxData = IF data < h.minData THEN @
                            ELSE IF data > @ THEN data ELSE @]

\* Histogram::BinCount( binNumber )
BinCount(h, binNumber) ==
  IF binNumber >= 0 /\ binNumber <= UInt(h.nBins + 1)
  THEN h.binVector[binNumber]
  ELSE 0

\* Histogram::NValues(), MinValue() and MaxValue()
NValues(h) == h.n
MinValue(h) == h.minData
MaxValue(h) == h.maxData
\* Histogram::MaxBinCount()
MaxBinCount(h) == h.maxFreq

\* The members TimeIntervalHistogram adds that tally and restartTimer use,
\* as its constructor leaves them: firstTime is true, the two time values
\* are not set and hold junk.  Times are in microseconds.  tallies counts
\* the calls of tally, others those of add and reset, op is the member
\* function called last.
TimeIntervalHistogram(junk) ==
  [firstTime |-> TRUE, tvPrevTimeValue |-> junk, tvNextTimeValue |-> junk,
   tallies |-> 0, others |-> 0, op |-> "constructor"]

\* The kernel before the host's call of cobegin.
Boot ==
  /\ csa = << >>
  /\ coroutineCount = 0
  /\ base = 0
  /\ stack = << >>
  /\ rip = HostCall
  /\ rbp = HostRBP
  /\ rbx = 0
  /\ argregs = Fill(IN_REGISTERS_COUNT, 0)
  /\ events = << >>

Init ==
  /\ Boot
  /\ now = 0
  /\ cont = TRUE
  /\ cancel = FALSE
  /\ waits = [f \in 1..MaxCo |-> NoWait]
  /\ given = [f \in 1..MaxCo |-> -1]
  /\ histo = Histogram(0, 1, 1, 0)
  /\ added = << >>
  /\ tih = TimeIntervalHistogram(0)

\* The call of popCoroutine that ends cobegin, coresume and cleanup, up to
\* the next decision point of the coroutine it restores.
Dispatch(c, b, ev) ==
  \E r \in {popCoroutine(c, b, argregs)} :
  \E l \in {Land(r.img, r.regs, r.baseMinusSize + r.size)} :
      /\ csa' = r.csa
      /\ argregs' = r.regs
      /\ rbx' = l.rbx
      /\ rbp' = l.rbp
      /\ rip' = l.rip
      /\ stack' = l.stack
      /\ events' = Append(ev, Ev(IF l.entered THEN "start" ELSE "resume", FuncOf(l.rip)))

\* The i-th entry function spawned in a run whose first one is s.
NthFunc(s, i) == ((s + i - 2) % MaxCo) + 1

\* cobegin whose loop pushes its entry functions last to first.
RECURSIVE cobeginLoop_Reversed(_, _, _, _, _)
cobeginLoop_Reversed(c, b, s, i, n) ==
  IF i > n THEN c
  ELSE LET f == NthFunc(s, i)
       IN  cobeginLoop_Reversed(
             cobeginImage(b, EntryAddr(f), ArgcOf(f), Args(f, ArgcOf(f))) \o c,
             b, s, i + 1, n)

\* The csa after cobegin's while loop has pushed its i-th to n-th entry
\* functions, in this order, onto c.
RECURSIVE cobeginLoop(_, _, _, _, _)
cobeginLoop(c, b, s, i, n) ==
  IF i > n THEN c
  ELSE LET f == NthFunc(s, i)
       IN  cobeginLoop(c \o cobeginImage(b, EntryAddr(f), ArgcOf(f), Args(f, ArgcOf(f))),
                       b, s, i + 1, n)

\* cobegin that counts one coroutine too few, and one too many.
cobeginCount_Short(cnt, n) == IF n > 0 THEN cnt + n - 1 ELSE cnt
cobeginCount_Long(cnt, n) == IF n > 0 THEN cnt + n + 1 ELSE cnt
\* coroutineCount after the n passes of cobegin's while loop.
cobeginCount(cnt, n) == cnt + n
\* cobegin that starts a coroutine only if there are two.
cobeginStarts_Two(cnt) == cnt > 1
\* if ( coroutineCount > 0 ): cobegin starts a coroutine only if there is one.
cobeginStarts(cnt) == cnt > 0

\* The host calls cobegin( n, f1, argc1, args1..., ..., fn, argcn, argsn... )
\* with n distinct entry functions, starting with function s.
cobegin ==
  /\ rip = HostCall
  /\ \E n \in 0..Min(MaxN, MaxCo) : \E s \in 1..MaxCo :
       \E c \in {cobeginLoop(csa, HostBase, s, 1, n)} :
       LET b == HostBase                                     \* setBase
           cnt == cobeginCount(coroutineCount, n)
           ev == events \o [i \in 1..n |-> Ev("spawn", NthFunc(s, i))]
       IN  /\ n = 0 => s = 1
           /\ base' = b
           /\ coroutineCount' = cnt
           /\ IF cobeginStarts(cnt)
              THEN Dispatch(c, b, ev)
              ELSE /\ csa' = c
                   /\ rip' = HostRet
                   /\ events' = Append(ev, Ev("host", 0))
                   /\ UNCHANGED << stack, rbp, rbx, argregs >>
  /\ UNCHANGED user

\* coresume that switches whenever a coroutine is counted.
coresumeSwitches_Always(cnt) == cnt > 0
\* coresume that switches only if the csa holds two tasks.
coresumeSwitches_Three(cnt) == cnt > 2
\* if ( coroutineCount > 1 ): coresume switches only if the csa holds a task.
coresumeSwitches(cnt) == cnt > 1

\* The running coroutine calls coresume().
coresume ==
  /\ IsBody(rip)
  /\ NYields < MaxYields
  /\ LET f == FuncOf(rip)
         stack1 == [stack EXCEPT ![1] = @ + 1]
         rsp == StackTop - Len(stack1)
         \* call coresume; push rbp; movq rsp, rbp; push rbx
         frame == << rbx, rbp, ResumeAddr(f) >> \o stack1
         rbpC == rsp - 2
     IN  IF coresumeSwitches(coroutineCount)
         THEN /\ \E c \in {coresumeSave(csa, base, frame, StackTop, rbpC)} :
                   Dispatch(c, base, Append(events, Ev("yield", f)))
              /\ UNCHANGED << coroutineCount, base >>
         ELSE /\ stack' = stack1
              /\ events' = Append(events, Ev("noop", f))
              /\ UNCHANGED << csa, coroutineCount, base, rip, rbp, rbx, argregs >>
  /\ UNCHANGED user

\* invoke that opens a slot for the new image at the bottom of the csa.
invokePush_Bottom(c, img) == img \o c

\* The csa after invoke has written the words img at csavail.
invokePush(c, img) == c \o img

\* The running coroutine calls invoke( g, argc, args... ) with the next
\* entry function g that has not been spawned yet.
invoke ==
  /\ IsBody(rip)
  /\ NSpawned < MaxCo
  /\ NInvoked < MaxInvokes
  /\ LET g == NthFunc(events[1].co, NSpawned + 1)
     IN  /\ csa' = invokePush(csa, invokeImage(base, EntryAddr(g), ArgcOf(g), Args(g, ArgcOf(g))))
         /\ coroutineCount' = coroutineCount + 1
         /\ events' = Append(events, Ev("invoke", g))
  /\ UNCHANGED << base, stack, rip, rbp, rbx, argregs, user >>

\* cleanup that never takes the returning coroutine for the last.
cleanupLast_Never(cnt) == FALSE

\* cleanup that takes the last but one coroutine for the last.
cleanupLast_Early(cnt) == cnt <= 1

\* if ( !--coroutineCount ): the count cleanup leaves, and whether cleanup
\* then returns to cobegin's caller.
cleanupCount(cnt) == cnt - 1
\* (mt.cpp:278, the test of the decremented count)
cleanupLast(cnt) == cnt = 0

\* The running coroutine returns from its entry function (movq rbp, rsp;
\* pop rbp; ret) into cleanup + CLEANUP_OFFSET.
cleanup ==
  /\ IsBody(rip)
  /\ WordAt(stack, StackTop, rbp + 1) = CleanupAddr + CLEANUP_OFFSET
  /\ LET f == FuncOf(rip)
         cnt == cleanupCount(coroutineCount)
         ev == Append(events, Ev("return", f))
     IN  /\ coroutineCount' = cnt
         /\ IF cleanupLast(cnt)
            THEN /\ rip' = HostRet
                 /\ rbp' = HostRBP
                 /\ stack' = << >>
                 /\ events' = Append(ev, Ev("host", 0))
                 /\ UNCHANGED << csa, rbx, argregs >>
            ELSE Dispatch(csa, base, ev)
  /\ UNCHANGED << base, user >>

Next == cobegin \/ coresume \/ invoke \/ cleanup

Spec == Init /\ [][Next]_vars

\* The OS thread keeps executing: whichever call is next is made.
FairSpec == Spec /\ WF_vars(Next)

\* ------------------------------------------------ reading the csa and history
\* The size a descriptor word states, its flag byte left out.
DescSize(d) == IF d < 0 THEN MaskSize(d) ELSE d

\* The images of the csa contents c from bottom to top, read downwards from
\* its last word as popCoroutine does: words are the image's words, desc is
\* its descriptor; bad marks a descriptor that states more words than lie
\* below it.
RECURSIVE Images(_)
Images(c) ==
  IF Len(c) = 0 THEN << >>
  ELSE LET d == Last(c)
           size == DescSize(d)
       IN  IF size < 0 \/ size + 1 > Len(c)
           THEN << [words |-> << >>, desc |-> d, bad |-> TRUE] >>
           ELSE Append(Images(SubSeq(c, 1, Len(c) - size - 1)),
                       [words |-> SubSeq(c, Len(c) - size, Len(c) - 1),
                        desc |-> d, bad |-> FALSE])

\* The coroutine an image belongs to: the function its third word, the
\* address popCoroutine returns to, lies in (0 if there is none).
Owner(im) ==
  IF Len(im.words) >= 3 /\ (IsEntry(im.words[3]) \/ IsResume(im.words[3]))
  THEN FuncOf(im.words[3]) ELSE 0
\* The owners of the stored images, bottom to top.
Stored == [i \in 1..Len(Images(csa)) |-> Owner(Images(csa)[i])]
StoredSet == {Stored[i] : i \in DOMAIN Stored}
IsVirgin(im) == im.desc < 0

\* The coroutine that is running, when one is.
Running == FuncOf(rip)

\* Histories read off events.
CoOf(kinds) == LET sel == SelectSeq(events, LAMBDA e : e.k \in kinds)
               IN  [i \in DOMAIN sel |-> sel[i].co]
Turns == CoOf({"start", "resume"})
Spawns == CoOf({"spawn", "invoke"})
Returns == CoOf({"return"})
SetOf(s) == {s[i] : i \in DOMAIN s}
Has(kind) == \E i \in DOMAIN events : events[i].k = kind

\* ------------------------------------------------------ when, wait, waitEx
\* Bits of an unsigned long and of the rep of std::chrono::milliseconds
\* (64 in the source).
TimeBits == 3
\* Last reading of the clock in a run.
MaxNow == 2
\* Largest ring of a run with waiting coroutines.
MaxWaiters == 2

\* The addresses of the two bool objects.
ContAddr == 5000
CancelAddr == 5001
\* Code addresses in entry function f: the points of its when( pred ) loop
\* and of the when loop of its waitEx call at which the condition is
\* evaluated (the return address of the loop's coresume call) and at which
\* coresume is called.
WhenTest(f) == EntryAddr(f) + 20
WhenCall(f) == EntryAddr(f) + 21
WaitExTest(f) == EntryAddr(f) + 30
WaitExCall(f) == EntryAddr(f) + 31
IsWhenTest(addr) == \E f \in 1..MaxCo : addr = WhenTest(f)
IsWhenCall(addr) == \E f \in 1..MaxCo : addr = WhenCall(f)
IsWaitExTest(addr) == \E f \in 1..MaxCo : addr = WaitExTest(f)
IsWaitExCall(addr) == \E f \in 1..MaxCo : addr = WaitExCall(f)

\* The largest unsigned long, and the waitMs values the model's callers
\* pass.
ULONG_MAX == Pow2(TimeBits) - 1
MsChoice == { 0, 2, ULONG_MAX }
\* std::chrono::milliseconds( waitMs ): the unsigned long converted to the
\* signed rep of the duration.
Milliseconds(waitMs) ==
  LET m == waitMs % Pow2(TimeBits)
  IN  IF m >= Pow2(TimeBits - 1) THEN m - Pow2(TimeBits) ELSE m
\* go = now() + milliseconds( waitMs )
Go(t, waitMs) == t + Milliseconds(waitMs)

\* waitEx whose condition leaves the canceling clause out.
waitExDone_NoCancel(t, go, continuing, canceling, canceled) ==
  t >= go \/ continuing = FALSE
\* The condition of waitEx's when: t is now(), continuing is *continuing,
\* canceling the pointer (0 is NULL) and canceled what it points to.
waitExDone(t, go, continuing, canceling, canceled) ==
  t >= go \/ continuing = FALSE \/ (canceling # 0 /\ canceled = TRUE)

\* when( pred ) that never calls coresume.
whenLoops_Never(pred) == FALSE
\* when( pred ): coresume is called as long as pred evaluates to false.
whenLoops(pred) == ~pred

\* The call of popCoroutine that ends a coresume called from a when loop.
Switch(c, b) ==
  \E r \in {popCoroutine(c, b, argregs)} :
  \E l \in {Land(r.img, r.regs, r.baseMinusSize + r.size)} :
      /\ csa' = r.csa
      /\ argregs' = r.regs
      /\ rbx' = l.rbx
      /\ rbp' = l.rbp
      /\ rip' = l.rip
      /\ stack' = l.stack

\* The host calls cobegin with one to MaxWaiters coroutines, the first of
\* them entry function 1.
waitBegin ==
  /\ cobegin
  /\ coroutineCount' \in 1..MaxWaiters
  /\ events'[1] = Ev("spawn", 1)

\* The clock advances.
tick ==
  /\ now < MaxNow
  /\ now' = now + 1
  /\ UNCHANGED << csa, coroutineCount, base, stack, rip, rbp, rbx, argregs,
                  events, cont, cancel, waits, rest >>

\* The running coroutine sets *canceling = true or *continuing = false.
setFlag ==
  /\ IsBody(rip)
  /\ \/ cancel = FALSE /\ cancel' = TRUE /\ cont' = cont
     \/ cont = TRUE /\ cont' = FALSE /\ cancel' = cancel
  /\ UNCHANGED << csa, coroutineCount, base, stack, rip, rbp, rbx, argregs,
                  events, now, waits, rest >>

\* A running coroutine other than entry function 1 calls coresume() from
\* its body, once at most.
waitYield ==
  /\ IsBody(rip) /\ rip # BodyAddr(1)
  /\ stack[1] = 0
  /\ coresume

\* The running coroutine reaches a when( *canceling ) of its body.
when ==
  /\ IsBody(rip)
  /\ rip' = WhenTest(FuncOf(rip))
  /\ UNCHANGED << csa, coroutineCount, base, stack, rbp, rbx, argregs,
                  events, user >>

\* The running coroutine calls waitEx( waitMs, &cont, canceling ), which
\* entry function 1 does, once at most: call, push rbp, and the frame's
\* words: go, and the three parameters.
waitEx ==
  /\ rip = BodyAddr(1)
  /\ waits[1].at = "none"
  /\ \E waitMs \in MsChoice : \E canceling \in {0, CancelAddr} :
       LET f == FuncOf(rip)
           rsp == StackTop - Len(stack)
       IN  /\ stack' = << Go(now, waitMs), canceling, ContAddr, waitMs, rbp, rip >> \o stack
           /\ rbp' = rsp - 2
           /\ rip' = WaitExTest(f)
           /\ waits' = [waits EXCEPT ![f] =
                           [ms |-> waitMs, canceling |-> canceling, t0 |-> now,
                            calls |-> 0, at |-> "waiting", elapsed |-> FALSE,
                            stopped |-> FALSE, canceled |-> FALSE]]
  /\ UNCHANGED << csa, coroutineCount, base, rbx, argregs, events, now, cont,
                  cancel, rest >>

\* The condition of a when loop is evaluated: the loop goes on to call
\* coresume, or is left; waitEx then returns (movq rbp, rsp; pop rbp; ret).
\* The record of the waitEx call keeps what held at this evaluation: that
\* waitMs ms have passed since the call, that *continuing is false, that
\* canceling is not NULL and *canceling is true.
whenTest ==
  /\ IsWhenTest(rip) \/ IsWaitExTest(rip)
  /\ LET f == FuncOf(rip)
     IN  IF IsWhenTest(rip)
         THEN /\ rip' = IF whenLoops(cancel) THEN WhenCall(f) ELSE BodyAddr(f)
              /\ UNCHANGED << stack, rbp, waits >>
         ELSE IF whenLoops(waitExDone(now, stack[1], cont, stack[2], cancel))
         THEN /\ rip' = WaitExCall(f)
              /\ UNCHANGED << stack, rbp, waits >>
         ELSE /\ rip' = stack[6]
              /\ rbp' = stack[5]
              /\ stack' = SubSeq(stack, 7, Len(stack))
              /\ LET w == waits[f]
                 IN  waits' = [waits EXCEPT ![f] =
                                 [w EXCEPT !.at = "returned",
                                           !.elapsed = (now - w.t0 >= w.ms),
                                           !.stopped = (cont = FALSE),
                                           !.canceled = (w.canceling # 0 /\ cancel = TRUE)]]
  /\ UNCHANGED << csa, coroutineCount, base, rbx, argregs, events, now, cont,
                  cancel, rest >>

\* A when loop calls coresume(), which returns to the evaluation of the
\* loop's condition.
whenCoresume ==
  /\ IsWhenCall(rip) \/ IsWaitExCall(rip)
  /\ LET f == FuncOf(rip)
         ret == IF IsWhenCall(rip) THEN WhenTest(f) ELSE WaitExTest(f)
         rsp == StackTop - Len(stack)
         frame == << rbx, rbp, ret >> \o stack
         rbpC == rsp - 2
     IN  /\ IF coresumeSwitches(coroutineCount)
            THEN \E c \in {coresumeSave(csa, base, frame, StackTop, rbpC)} :
                    Switch(c, base)
            ELSE /\ rip' = ret
                 /\ UNCHANGED << csa, stack, rbp, rbx, argregs >>
         /\ waits' = IF IsWaitExCall(rip)
                     THEN [waits EXCEPT ![f].calls = Min(@ + 1, 2)]
                     ELSE waits
  /\ UNCHANGED << coroutineCount, base, events, now, cont, cancel, rest >>

WaitNext ==
  waitBegin \/ tick \/ setFlag \/ waitYield \/ when \/ waitEx \/ whenTest
    \/ whenCoresume \/ cleanup

WaitSpec == Init /\ [][WaitNext]_vars

\* The OS thread keeps executing.
WaitFairSpec == WaitSpec /\ WF_vars(WaitNext)

\* ------------------------------------------------- spawning with arguments
\* Largest of the small argument counts a spawner states; it also states
\* the counts around the largest an int8_t holds.
MaxSpawnArgc == 9
ArgcRange == (0..MaxSpawnArgc) \cup {127, 128, 129}

\* Where the thread is once popCoroutine has copied an image whose
\* descriptor states more words than the csa holds: the copy runs off the
\* mapped memory and the process is killed.
SegFault == 0
Wild(c) == DescSize(Last(c)) + 1 > Len(c)

\* The host calls cobegin( 1, f, argc, a1, ..., a_argc ) for entry function 1.
argCobegin ==
  /\ rip = HostCall
  /\ \E argc \in ArgcRange :
       \E c \in {cobeginLoop(csa, HostBase, 1, 1, 0)
                   \o cobeginImage(HostBase, EntryAddr(1), argc, Args(1, argc))} :
         /\ base' = HostBase
         /\ coroutineCount' = cobeginCount(coroutineCount, 1)
         /\ given' = [given EXCEPT ![1] = argc]
         /\ IF Wild(c)
            THEN /\ csa' = c
                 /\ rip' = SegFault
                 /\ events' = events \o << Ev("spawn", 1), Ev("fault", 1) >>
                 /\ UNCHANGED << stack, rbp, rbx, argregs >>
            ELSE Dispatch(c, HostBase, Append(events, Ev("spawn", 1)))
  /\ UNCHANGED << now, cont, cancel, waits, histo, added, tih >>

\* The running coroutine calls invoke( g, argc, a1, ..., a_argc ) for entry
\* function 2, once.
argInvoke ==
  /\ IsBody(rip)
  /\ given[2] = -1
  /\ \E argc \in ArgcRange :
       /\ csa' = invokePush(csa, invokeImage(base, EntryAddr(2), argc, Args(2, argc)))
       /\ given' = [given EXCEPT ![2] = argc]
  /\ coroutineCount' = coroutineCount + 1
  /\ events' = Append(events, Ev("invoke", 2))
  /\ UNCHANGED << base, stack, rip, rbp, rbx, argregs, now, cont, cancel, waits,
                  histo, added, tih >>

ArgNext == argCobegin \/ argInvoke \/ coresume \/ cleanup

ArgSpec == Init /\ [][ArgNext]_vars

\* ------------------------------------------------------- filling the csa
\* long csa[CSA_SIZE] (mt.cpp:62 and 103): the number of words of the csa;
\* 90000 in the source, small here so that a few images fill it.
CSA_SIZE == 20

\* csavail points into the array or just behind its last word.
InArray == Len(csa) <= CSA_SIZE

\* The operations of the kernel while csavail is inside the array.  None of
\* them compares csavail with the end of the array before it writes; a write
\* behind the array is undefined, and the thread is not followed past it.
fillCobegin == InArray /\ cobegin
fillCoresume == InArray /\ coresume
fillInvoke == InArray /\ invoke
fillCleanup == InArray /\ cleanup

FillNext == fillCobegin \/ fillCoresume \/ fillInvoke \/ fillCleanup

FillSpec == Init /\ [][FillNext]_vars

\* ------------------------------------------------- using a Histogram
\* A program constructs a Histogram and calls Add and Reset on it; added is
\* the sequence of the values added since construction or the last Reset.
HistoInit ==
  /\ Boot /\ now = 0 /\ cont = TRUE /\ cancel = FALSE
  /\ waits = [f \in 1..MaxCo |-> NoWait]
  /\ given = [f \in 1..MaxCo |-> -1]
  /\ \E min \in 0..MaxMinBin : \E countsPer \in 1..MaxCountsPer :
       \E bins \in 1..MaxBins : \E junk \in {0, UINT_MAX} :
         histo = Histogram(min, countsPer, bins, junk)
  /\ added = << >>
  /\ tih = TimeIntervalHistogram(0)

callAdd ==
  /\ Len(added) < MaxAdds
  /\ \E data \in 0..UINT_MAX :
       /\ histo' = Add(histo, data)
       /\ added' = Append(added, data)
  /\ UNCHANGED << csa, coroutineCount, base, stack, rip, rbp, rbx, argregs,
                  events, now, cont, cancel, waits, given, tih >>

callReset ==
  /\ added # << >>
  /\ histo' = Reset(histo)
  /\ added' = << >>
  /\ UNCHANGED << csa, coroutineCount, base, stack, rip, rbp, rbx, argregs,
                  events, now, cont, cancel, waits, given, tih >>

HistoNext == callAdd \/ callReset

HistoSpec == HistoInit /\ [][HistoNext]_vars

\* --------------------------------------- using a TimeIntervalHistogram
\* Largest reading of gettimeofday, in microseconds, and the number of calls
\* of tally, add and reset made at most.
MaxTime == 2
MaxCalls == 4

TallyInit ==
  /\ Boot /\ now = 0 /\ cont = TRUE /\ cancel = FALSE
  /\ waits = [f \in 1..MaxCo |-> NoWait]
  /\ given = [f \in 1..MaxCo |-> -1]
  /\ \E countsPer \in 1..MaxCountsPer : histo = Histogram(0, countsPer, 1, 0)
  /\ added = << >>
  /\ \E junk \in {0, MaxTime} : tih = TimeIntervalHistogram(junk)

\* tally that adds an entry on every call.
tallyAdds_Always(firstTime) == TRUE
\* if ( firstTime ) ... else: tally adds an entry unless it is the first.
tallyAdds(firstTime) == ~firstTime

\* TimeIntervalHistogram::tally(); t is what gettimeofday stores.
tally ==
  /\ tih.tallies + tih.others < MaxCalls
  /\ \E t \in 0..MaxTime :
       IF tallyAdds(tih.firstTime)
       THEN LET uDelta == t - tih.tvPrevTimeValue
            IN  /\ histo' = Add(histo, UInt(uDelta))
                /\ added' = Append(added, UInt(uDelta))
                /\ tih' = [tih EXCEPT !.tvNextTimeValue = t, !.tvPrevTimeValue = t,
                                      !.tallies = @ + 1, !.op = "tally"]
       ELSE /\ tih' = [tih EXCEPT !.tvPrevTimeValue = t, !.firstTime = FALSE,
                                  !.tallies = @ + 1, !.op = "tally"]
            /\ UNCHANGED << histo, added >>
  /\ UNCHANGED << csa, coroutineCount, base, stack, rip, rbp, rbx, argregs,
                  events, now, cont, cancel, waits, given >>

\* TimeIntervalHistogram::restartTimer()
restartTimer ==
  /\ \E t \in 0..MaxTime :
       tih' = [tih EXCEPT !.tvPrevTimeValue = t, !.op = "restartTimer"]
  /\ UNCHANGED << csa, coroutineCount, base, stack, rip, rbp, rbx, argregs,
                  events, now, cont, cancel, waits, given, histo, added >>

\* TimeIntervalHistogram::add( data )
add ==
  /\ tih.tallies + tih.others < MaxCalls
  /\ \E data \in {0, UINT_MAX} :
       /\ histo' = Add(histo, data)
       /\ added' = Append(added, data)
  /\ tih' = [tih EXCEPT !.others = @ + 1, !.op = "add"]
  /\ UNCHANGED << csa, coroutineCount, base, stack, rip, rbp, rbx, argregs,
                  events, now, cont, cancel, waits, given >>

\* TimeIntervalHistogram::reset()
reset ==
  /\ tih.tallies + tih.others < MaxCalls
  /\ histo' = Reset(histo)
  /\ added' = << >>
  /\ tih' = [tih EXCEPT !.others = @ + 1, !.op = "reset"]
  /\ UNCHANGED << csa, coroutineCount, base, stack, rip, rbp, rbx, argregs,
                  events, now, cont, cancel, waits, given >>

TallyNext == tally \/ restartTimer \/ add \/ reset

TallySpec == TallyInit /\ [][TallyNext]_vars

\* ------------------------------------------- long runs of a Histogram
\* Number of Add calls made at most on a Histogram that starts empty.
MaxRun == 12

\* The Histogram after Add has been called with the values of q in turn.
RECURSIVE AddAll(_, _)
AddAll(h, q) == IF q = << >> THEN h ELSE AddAll(Add(h, Head(q)), Tail(q))

\* A Histogram with one bin for the value 0, every larger value (2 is the
\* one passed) being over range, either as constructed or after UINT_MAX - 1 calls of Add( 0 ).
LongInit ==
  /\ Boot /\ now = 0 /\ cont = TRUE /\ cancel = FALSE
  /\ waits = [f \in 1..MaxCo |-> NoWait]
  /\ given = [f \in 1..MaxCo |-> -1]
  /\ \E k \in {0, UINT_MAX - 1} :
       /\ added = Fill(k, 0)
       /\ histo = AddAll(Histogram(0, 1, 1, 0), Fill(k, 0))
  /\ tih = TimeIntervalHistogram(0)

\* Add is called: up to MaxRun times from empty, and up to two calls past
\* the wrap of n once UINT_MAX - 1 values are in.
longAdd ==
  /\ \/ Len(added) < MaxRun
     \/ Len(added) >= UINT_MAX - 1 /\ Len(added) <= UINT_MAX + 1
  /\ \E data \in {0, 2} :
       /\ histo' = Add(histo, data)
       /\ added' = Append(added, data)
  /\ UNCHANGED << csa, coroutineCount, base, stack, rip, rbp, rbx, argregs,
                  events, now, cont, cancel, waits, given, tih >>

longReset ==
  /\ added # << >>
  /\ histo' = Reset(histo)
  /\ added' = << >>
  /\ UNCHANGED << csa, coroutineCount, base, stack, rip, rbp, rbx, argregs,
                  events, now, cont, cancel, waits, given, tih >>

LongNext == longAdd \/ longReset

LongSpec == LongInit /\ [][LongNext]_vars

\* ------------------------------------------------- the host calls again
\* cobegin has returned and the host calls it once more, its argument
\* registers loaded for the call; events is the history of the call under
\* way.
hostAgain ==
  /\ rip = HostRet
  /\ rip' = HostCall
  /\ events' = << >>
  /\ argregs' = Fill(IN_REGISTERS_COUNT, 0)
  /\ UNCHANGED << csa, coroutineCount, base, stack, rbp, rbx, user >>

AgainNext == cobegin \/ coresume \/ invoke \/ cleanup \/ hostAgain

AgainSpec == Init /\ [][AgainNext]_vars

\* C1: while a coroutine is running, every coroutine that has been spawned
\* and has not returned is either the running one or the owner of exactly
\* one image of the csa: none is both running and stored, stored twice, or
\* missing, and the csa holds nothing else.
C1_OneLiveRestStored ==
  IsBody(rip) =>
    LET ims == Images(csa)
        alive == SetOf(Spawns) \ SetOf(Returns)
    IN  /\ \A i \in DOMAIN ims : ~ims[i].bad /\ Owner(ims[i]) # 0
        /\ \A i, j \in DOMAIN Stored : Stored[i] = Stored[j] => i = j
        /\ Running \notin StoredSet
        /\ StoredSet \cup {Running} = alive

C1_Witness ==
  /\ IsBody(rip)
  /\ Len(Stored) >= 1
  /\ Has("yield") /\ Has("invoke") /\ Has("return")

\* C2: in a ring of N coroutines started by cobegin, as long as no coroutine
\* has called invoke or returned (so that every turn so far ended in a
\* coresume), the first N turns go to N different coroutines and turn k goes
\* to the coroutine of turn k - N.
C2_StrictRotation ==
  (~Has("invoke") /\ ~Has("return")) =>
    LET N == Len(Spawns)
    IN  /\ \A j, k \in DOMAIN Turns : (j <= N /\ k <= N /\ Turns[j] = Turns[k]) => j = k
        /\ \A k \in DOMAIN Turns : k > N => Turns[k] = Turns[k - N]

C2_Witness ==
  /\ ~Has("invoke") /\ ~Has("return")
  /\ Len(Spawns) = 3
  /\ Len(Turns) >= 7
  /\ Turns[4] = Turns[1] /\ Turns[7] = Turns[1]

\* The last event before event i that took coroutine x out of execution or
\* put it on the ring: its spawn, or its last switching coresume (0 if none).
OutSince(x, i) ==
  LET js == {j \in 1..(i - 1) : events[j].co = x /\ events[j].k \in {"spawn", "invoke", "yield"}}
  IN  IF js = {} THEN 0 ELSE CHOOSE j \in js : \A k \in js : k <= j
\* The coroutines on the ring just before event i, and those of them that
\* have not been entered yet.
AliveAt(i) ==
  {x \in 1..MaxCo : /\ \E j \in 1..(i - 1) : events[j].co = x /\ events[j].k \in {"spawn", "invoke"}
                    /\ ~\E j \in 1..(i - 1) : events[j] = Ev("return", x)}
VirginAt(i) == {x \in AliveAt(i) : ~\E j \in 1..(i - 1) : events[j] = Ev("start", x)}
\* The coroutines stored in the csa when the caller of the switching
\* coresume of event i has been saved: all of the ring but the caller.
WaitingAt(i) == AliveAt(i) \ {events[i].co}
IsSwitch(i) == i \in DOMAIN events /\ events[i].k = "yield"

\* OutSince with the coroutines of the cobegin call counted as spawned at
\* the same instant, the call.
OutSinceCall(x, i) ==
  IF OutSince(x, i) > 0 /\ events[OutSince(x, i)].k = "spawn" THEN 0 ELSE OutSince(x, i)

\* C3 as stated: at every switching coresume the coroutine resumed is, among
\* the stored ones, one that has been out of execution the longest (since
\* its last suspension, or since its spawn if it has not run yet).
C3_Original ==
  \A i \in DOMAIN events : IsSwitch(i) =>
    LET g == events[i + 1].co
    IN  /\ g \in WaitingAt(i)
        /\ \A x \in WaitingAt(i) : OutSinceCall(g, i) <= OutSinceCall(x, i)

\* C3, amended: at every switching coresume the coroutine resumed is the
\* owner of the top image of the csa: the most recently spawned of the stored
\* coroutines that have never run (among those of the cobegin call, the
\* last of its argument list), if there is one, and otherwise the stored
\* coroutine that has been suspended the longest.
C3_TopOfCsaNext ==
  \A i \in DOMAIN events : IsSwitch(i) =>
    LET g == events[i + 1].co
        W == WaitingAt(i)
        V == VirginAt(i)
    IN  /\ g \in W
        /\ V # {} => (g \in V /\ \A x \in V : OutSince(x, i) <= OutSince(g, i))
        /\ V = {} => \A x \in W : OutSince(g, i) <= OutSince(x, i)

C3_Witness ==
  \E i \in DOMAIN events :
    /\ IsSwitch(i) /\ Has("invoke")
    /\ VirginAt(i) = {} /\ Cardinality(WaitingAt(i)) >= 2
    /\ \E j \in 1..(i - 1) : IsSwitch(j) /\ VirginAt(j) # {} /\ Cardinality(WaitingAt(j)) >= 2

\* C4: the first turn goes to the last coroutine of cobegin's argument list;
\* and while no coroutine has called coresume or invoke, the coroutines have
\* run, and returned, one after another in the reverse of the argument
\* order, each return lands in cleanup, and cobegin has returned only when
\* all n have run.
C4_ReverseOrder ==
  LET sp == CoOf({"spawn"})
      n == Len(sp)
  IN  /\ Len(Turns) >= 1 => Turns[1] = sp[n]
      /\ (~Has("yield") /\ ~Has("noop") /\ ~Has("invoke")) =>
           /\ \A k \in DOMAIN Turns : Turns[k] = sp[n - k + 1]
           /\ \A k \in DOMAIN Returns : Returns[k] = Turns[k]
           /\ Len(Turns) - Len(Returns) = (IF IsBody(rip) THEN 1 ELSE 0)
           /\ IsBody(rip) => WordAt(stack, StackTop, rbp + 1) = CleanupAddr + CLEANUP_OFFSET
           /\ rip = HostRet => Len(Returns) = n

C4_Witness ==
  /\ rip = HostRet
  /\ ~Has("yield") /\ ~Has("noop") /\ ~Has("invoke")
  /\ Len(Returns) = 3

\* C5: cobegin has returned to the host only if coroutineCount is 0 and every
\* coroutine spawned by cobegin or invoke has returned, exactly once; the
\* return to the host follows directly on a coroutine's return; and as long
\* as coroutineCount > 0 after cobegin's call a coroutine is running.
C5_HostOnlyAtZero ==
  /\ rip = HostRet =>
       /\ coroutineCount = 0
       /\ SetOf(Spawns) = SetOf(Returns) /\ Len(Spawns) = Len(Returns)
       /\ Len(Spawns) > 0 => events[Len(events) - 1].k = "return"
  /\ (events # << >> /\ coroutineCount > 0) => IsBody(rip)
  /\ (events # << >> /\ coroutineCount = 0) => rip = HostRet

C5_Witness ==
  /\ rip = HostRet
  /\ Has("invoke") /\ Has("yield")
  /\ Len(Returns) = 3

\* Every spawned coroutine has been entered exactly once and has returned
\* exactly once.
Injective(q) == \A i, j \in DOMAIN q : q[i] = q[j] => i = j
AllRanOnce ==
  /\ Injective(CoOf({"start"})) /\ SetOf(CoOf({"start"})) = SetOf(Spawns)
  /\ Injective(Returns) /\ SetOf(Returns) = SetOf(Spawns)
  /\ Injective(Spawns)

\* C6: when every coroutine makes finitely many coresume and invoke calls
\* (here at most MaxYields and MaxInvokes in the run) cobegin eventually
\* returns to the host, and then every spawned coroutine has been entered
\* exactly once and has returned.
C6_Terminates == <>(rip = HostRet /\ AllRanOnce)

C6_Witness ==
  /\ rip = HostRet /\ AllRanOnce
  /\ Len(Spawns) = 3 /\ Has("yield") /\ Has("invoke")

\* C7 as stated: in every reachable state coroutineCount is the number of
\* images in the csa plus one.
C7_Original == coroutineCount = Len(Images(csa)) + 1

\* C7, amended: whenever a coroutine is running, coroutineCount is the number
\* of images in the csa plus one; while the host runs, before cobegin and
\* after its return, coroutineCount and the number of images are both 0.
C7_CountWhileLive ==
  /\ \A i \in DOMAIN Images(csa) : ~Images(csa)[i].bad
  /\ IsBody(rip) => coroutineCount = Len(Images(csa)) + 1
  /\ ~IsBody(rip) => (coroutineCount = 0 /\ Len(Images(csa)) = 0)

C7_Witness ==
  /\ IsBody(rip) /\ Len(Images(csa)) = 2 /\ coroutineCount = 3
  /\ Has("yield") /\ Has("invoke")

\* C8: seen from a running coroutine, getCoroutineCount() is the number of
\* coroutines spawned so far by cobegin and invoke minus the number that
\* have returned; so in a ring of N without invoke it is N minus the number
\* of returns so far, and no coresume changes it.
getCoroutineCount == coroutineCount
C8_CountIsSpawnedMinusReturned ==
  IsBody(rip) =>
    /\ getCoroutineCount = Len(Spawns) - Len(Returns)
    /\ ~Has("invoke") => getCoroutineCount = Len(CoOf({"spawn"})) - Len(Returns)

C8_Witness ==
  /\ IsBody(rip)
  /\ Len(CoOf({"spawn"})) = 3 /\ ~Has("invoke") /\ Len(Returns) = 1
  /\ getCoroutineCount = 2
  /\ events[Len(events) - 1].k = "yield"

\* C9: a step in which the running coroutine calls invoke leaves that
\* coroutine running with its stack and registers untouched, raises
\* coroutineCount by exactly 1, leaves every word the csa held where it was,
\* and adds on top of the csa exactly one image, a virgin one, for the new
\* coroutine.
InvokeStep == Len(events') = Len(events) + 1 /\ events'[Len(events')].k = "invoke"
C9_InvokeFrame ==
  [][InvokeStep =>
       LET g == events'[Len(events')].co
           ims == Images(csa')
           new == ims[Len(ims)]
       IN  /\ rip' = rip /\ stack' = stack /\ rbp' = rbp /\ rbx' = rbx
           /\ argregs' = argregs /\ base' = base
           /\ coroutineCount' = coroutineCount + 1
           /\ Len(csa') > Len(csa) /\ SubSeq(csa', 1, Len(csa)) = csa
           /\ Len(ims) = Len(Images(csa)) + 1
           /\ ~new.bad /\ IsVirgin(new) /\ MarkOf(new.desc) = ArgcOf(g)
           /\ Len(new.words) + 1 = Len(csa') - Len(csa)
           /\ new.words[3] = EntryAddr(g)
    ]_vars

C9_Witness ==
  /\ events # << >> /\ events[Len(events)].k = "invoke"
  /\ Len(Images(csa)) >= 2
  /\ Has("yield")

\* An invoke (event i) directly followed by a coresume of the invoking
\* coroutine, and the coroutines that were suspended at the invoke.
InvokeThenYield(i) ==
  /\ i \in DOMAIN events /\ i + 2 \in DOMAIN events
  /\ events[i].k = "invoke" /\ events[i + 1].k = "yield"
SuspendedAtInvoke(i) == AliveAt(i) \ {events[i + 1].co}
TurnBetween(x, i, t) ==
  \E u \in (i + 1)..(t - 1) : events[u].co = x /\ events[u].k \in {"start", "resume"}

\* C10 as stated: after invoke and then coresume in a ring with other
\* suspended coroutines, the new coroutine gets its first turn only after
\* every coroutine suspended at the time of the invoke has had a turn.
C10_Original ==
  \A i \in DOMAIN events : InvokeThenYield(i) =>
    \A t \in DOMAIN events : events[t] = Ev("start", events[i].co) =>
      \A x \in SuspendedAtInvoke(i) : TurnBetween(x, i, t)

\* C10, amended: after invoke and then coresume the new coroutine gets its
\* first turn at that very coresume, before any coroutine that was suspended
\* at the time of the invoke gets a turn.
C10_NewRunsFirst ==
  \A i \in DOMAIN events : InvokeThenYield(i) =>
    /\ events[i + 2] = Ev("start", events[i].co)
    /\ \A x \in SuspendedAtInvoke(i) : ~TurnBetween(x, i, i + 2)

C10_Witness ==
  \E i \in DOMAIN events :
    /\ InvokeThenYield(i)
    /\ Cardinality(SuspendedAtInvoke(i)) >= 1
    /\ events[i + 2] = Ev("start", events[i].co)
    /\ \E t \in DOMAIN events : t > i + 2 /\ events[t].k = "resume"
                                /\ events[t].co \in SuspendedAtInvoke(i)

\* The run so far begins as the late-invoke scenario: cobegin( 1, A, 0 ),
\* then A calls invoke( B, 1, x ) and then coresume.
LateInvoke ==
  /\ Len(events) >= 4
  /\ events[1].k = "spawn" /\ ArgcOf(events[1].co) = 0
  /\ events[2] = Ev("start", events[1].co)
  /\ events[3].k = "invoke" /\ ArgcOf(events[3].co) = 1
  /\ events[4].k \in {"yield", "noop"}
LateA == events[1].co
LateB == events[3].co

\* C11: in the late-invoke scenario A's coresume switches (it is not a
\* no-op, two coroutines being counted), B is entered next and finds its
\* single argument x in the first argument register and in the local it
\* spills it to; if B then returns, A is resumed right after its coresume
\* call, with its frame as it left it; and if A then returns, cobegin
\* returns to the host.
C11_LateInvoke ==
  LateInvoke =>
    /\ events[4] = Ev("yield", LateA)
    /\ Len(events) >= 5
    /\ events[5] = Ev("start", LateB)
    /\ Len(events) = 5 =>
         /\ rip = BodyAddr(LateB) /\ coroutineCount = 2
         /\ argregs[1] = ArgVal(LateB, 1) /\ stack[2] = ArgVal(LateB, 1)
    /\ (Len(events) >= 6 /\ events[6].k = "return") =>
         /\ Len(events) >= 7
         /\ events[6] = Ev("return", LateB) /\ events[7] = Ev("resume", LateA)
         /\ Len(events) = 7 =>
              /\ rip = BodyAddr(LateA) /\ stack[1] = 1 /\ coroutineCount = 1
              /\ WordAt(stack, StackTop, rbp + 1) = CleanupAddr + CLEANUP_OFFSET
              /\ csa = << >>
         /\ (Len(events) >= 8 /\ events[8].k = "return") =>
              /\ Len(events) = 9
              /\ events[8] = Ev("return", LateA) /\ events[9] = Ev("host", 0)
              /\ rip = HostRet /\ coroutineCount = 0

C11_Witness ==
  /\ LateInvoke /\ Len(events) = 9
  /\ events[6].k = "return" /\ events[8].k = "return"
  /\ rip = HostRet

\* A step in which the running coroutine calls coresume.
CoresumeStep ==
  /\ Len(events') > Len(events)
  /\ events'[Len(events) + 1].k \in {"yield", "noop"}

\* C12: a coresume call made while coroutineCount <= 1 is a no-op: the
\* caller goes on running at the same place with the same frame pointer and
\* registers, no coroutine is switched to, and the csa contents, csavail
\* (the length of the csa) and coroutineCount are what they were.
C12_CoresumeNoop ==
  [][(CoresumeStep /\ coroutineCount <= 1) =>
       /\ events' = Append(events, Ev("noop", Running))
       /\ rip' = rip /\ rbp' = rbp /\ rbx' = rbx /\ argregs' = argregs
       /\ stack' = [stack EXCEPT ![1] = @ + 1]
       /\ csa' = csa /\ Len(csa') = Len(csa)
       /\ coroutineCount' = coroutineCount /\ base' = base
    ]_vars

C12_Witness ==
  /\ events # << >> /\ events[Len(events)].k = "noop"
  /\ coroutineCount = 1 /\ csa = << >>
  /\ Has("yield") /\ Has("return")

\* Coroutine f, the only one of its ring, evaluates the condition of its
\* when( *canceling ) while the flag is false, which nobody is there to set;
\* and what the run looks like as long as f is caught in that loop.
Stuck(f) ==
  /\ Len(Spawns) = 1 /\ Spawns[1] = f
  /\ rip = WhenTest(f) /\ cancel = FALSE
Spinning(f) ==
  /\ rip \in {WhenTest(f), WhenCall(f)}
  /\ Turns = << f >> /\ Returns = << >>
  /\ coroutineCount = 1 /\ csa = << >>
  /\ cancel = FALSE

\* C13: in a ring of one coroutine (which cannot call invoke from inside the
\* loop), a when loop whose condition is false and has nobody to make it
\* true goes on for ever: from then on the coroutine is always in the loop,
\* calling coresume again and again, no other coroutine runs, cobegin does
\* not return, and coroutineCount is 1 in every state.
C13_SpinsForever ==
  \A f \in 1..MaxCo :
    [](Stuck(f) => ([]Spinning(f) /\ []<>(rip = WhenCall(f)) /\ []<>(rip = WhenTest(f))))

C13_Witness ==
  /\ Len(Spawns) = 1 /\ rip = WhenCall(1)
  /\ cancel = FALSE /\ coroutineCount = 1
  /\ now = MaxNow

\* The number of coresume calls coroutine x has made, and the output of a
\* run in which every coroutine prints its letter right before each of its
\* coresume calls and nowhere else: the callers of coresume in call order.
CallsOf(x) == Cardinality({i \in DOMAIN events : events[i].k \in {"yield", "noop"} /\ events[i].co = x})
Output == CoOf({"yield", "noop"})
\* A finished ping-pong run: cobegin( 2, A, B ), no invoke, A and B have
\* each called coresume three times and returned.
PingPong ==
  /\ Len(CoOf({"spawn"})) = 2 /\ ~Has("invoke")
  /\ \A x \in SetOf(Spawns) : CallsOf(x) = 3
  /\ Len(Returns) = 2
PingA == Spawns[1]
PingB == Spawns[2]

\* C14 as stated: the ping-pong run prints BABABAB, A returns before B, and
\* cobegin then returns.
C14_Original ==
  PingPong =>
    /\ Output = << PingB, PingA, PingB, PingA, PingB, PingA, PingB >>
    /\ Returns = << PingA, PingB >>
    /\ rip = HostRet

\* C14, amended: the ping-pong run prints BABABA (B, entered first, prints
\* first, and each of the six coresume calls switches to the peer), B
\* returns before A, and cobegin then returns.
C14_PingPong ==
  PingPong =>
    /\ Output = << PingB, PingA, PingB, PingA, PingB, PingA >>
    /\ \A i \in DOMAIN events : events[i].k # "noop"
    /\ Returns = << PingB, PingA >>
    /\ rip = HostRet /\ events[Len(events)] = Ev("host", 0)
    /\ coroutineCount = 0

C14_Witness ==
  /\ PingPong /\ rip = HostRet
  /\ Len(Output) = 6

\* The state right after the first entry of entry function f, spawned with
\* a stated argument count.
EnteredNow(f) ==
  /\ events # << >> /\ events[Len(events)] = Ev("start", f)
  /\ given[f] >= 0
\* f finds its arguments where the ABI has them: the first six in rdi, rsi,
\* rdx, rcx, r8, r9, the others in the stack words right above the return
\* address, which is the fourth word of the stack once the prologue has
\* pushed rbp and two locals.
Received(f, argc) ==
  /\ \A k \in 1..Min(argc, IN_REGISTERS_COUNT) : argregs[k] = ArgVal(f, k)
  /\ stack[4] = CleanupAddr + CLEANUP_OFFSET
  /\ \A j \in 1..(argc - IN_REGISTERS_COUNT) :
       stack[4 + j] = ArgVal(f, IN_REGISTERS_COUNT + j)

\* C15 as stated: whatever the argument count, a coroutine entered for the
\* first time finds its first six arguments in the argument registers in
\* order and the others in consecutive stack words right above the return
\* address.
C15_Original == \A f \in 1..MaxCo : EnteredNow(f) => Received(f, given[f])

\* C15, for the counts the descriptor's flag byte can hold: a coroutine
\* spawned with 0 to 127 arguments finds them in order, six in registers,
\* the others right above the return address, for odd and even counts.
C15_InOrderTo127 ==
  \A f \in 1..MaxCo : (EnteredNow(f) /\ given[f] <= 127) => Received(f, given[f])

\* A coroutine spawned by invoke with 128 arguments has been entered.
C15_Witness == EnteredNow(2) /\ given[2] = 128

\* The image a spawn appends for f with argc arguments holds the four
\* frame words, every argument in order and the padding, and its
\* descriptor states that word count, the flag 0x80 and argc.
ImageOK(img, f, argc) ==
  LET fillerCount == IF argc = 0 THEN 2 ELSE argc % 2
      d == Last(img)
  IN  /\ Len(img) = LONG_COUNT + 2 + argc + fillerCount + 1
      /\ \A k \in 1..argc : img[4 + k] = ArgVal(f, k)
      /\ d < 0
      /\ MaskSize(d) = Len(img) - 1
      /\ MarkOf(d) = argc

\* C16 as stated: for every argument count, cobegin and invoke push all the
\* argument words and write a descriptor with the image's word count and
\* the argument count, and the coroutine is entered with all its arguments.
C16_Original ==
  /\ given[1] >= 0 =>
       ImageOK(cobeginImage(HostBase, EntryAddr(1), given[1], Args(1, given[1])), 1, given[1])
  /\ given[2] >= 0 =>
       ImageOK(invokeImage(base, EntryAddr(2), given[2], Args(2, given[2])), 2, given[2])
  /\ rip # SegFault
  /\ \A f \in 1..MaxCo : EnteredNow(f) => Received(f, given[f])

\* C16, for counts up to 127: the image and its descriptor are right and
\* the coroutine is entered with all its arguments.
C16_UpTo127 ==
  /\ (given[1] >= 0 /\ given[1] <= 127) =>
       ImageOK(cobeginImage(HostBase, EntryAddr(1), given[1], Args(1, given[1])), 1, given[1])
  /\ (given[2] >= 0 /\ given[2] <= 127) =>
       ImageOK(invokeImage(base, EntryAddr(2), given[2], Args(2, given[2])), 2, given[2])
  /\ (rip = SegFault) => given[1] > 127
  /\ \A f \in 1..MaxCo : (EnteredNow(f) /\ given[f] <= 127) => Received(f, given[f])

\* cobegin has been called with 128 arguments for its coroutine.
C16_Witness == given[1] = 128 /\ rip = SegFault

\* C17: csavail never passes the end of the csa: a spawn or a switching
\* coresume that would move it past csa + CSA_SIZE aborts instead of writing.
C17_Original == Len(csa) <= CSA_SIZE

\* An invoke, or a switching coresume (the event before the one of the
\* coroutine it resumed), has left csavail behind the array.
C17_Witness ==
  /\ Len(csa) > CSA_SIZE
  /\ \E i \in {Len(events) - 1, Len(events)} :
       i >= 1 /\ events[i].k \in {"yield", "invoke"}

\* One of C18's three conditions held when function f called
\* waitEx( ms, continuing, canceling ), read before f's first call of
\* coresume (only the clock moves until then, the flags are those of the
\* call): no time has to elapse, *continuing is false, or canceling is not
\* NULL and *canceling is true.
HeldAtCall(f) ==
  \/ waits[f].ms = 0
  \/ cont = FALSE
  \/ (waits[f].canceling # 0 /\ cancel = TRUE)

\* waitEx of function f returned at an evaluation at which one of the three
\* conditions held (they are recorded at the return).
ReturnedForCause(f) ==
  waits[f].at = "returned" =>
    (waits[f].elapsed \/ waits[f].stopped \/ waits[f].canceled)

\* waitEx of function f does not call coresume if one of the conditions
\* held at the call.
NoYieldIfHeld(f) ==
  (rip = WaitExCall(f) /\ waits[f].calls = 0) => ~HeldAtCall(f)

\* C18: waitEx returns only at an evaluation at which ms milliseconds have
\* elapsed, *continuing is false, or canceling is non-NULL and *canceling is
\* true (a NULL canceling never ends it), and it returns without calling
\* coresume if one of them holds at the call.
C18_Original ==
  \A f \in 1..MaxCo : ReturnedForCause(f) /\ NoYieldIfHeld(f)

\* The same for the time-outs a signed millisecond count holds.
C18_SignedMs ==
  \A f \in 1..MaxCo :
    waits[f].ms < Pow2(TimeBits - 1) => (ReturnedForCause(f) /\ NoYieldIfHeld(f))

\* waitEx( ULONG_MAX, &cont, NULL ) has returned at its first evaluation, at
\* which no time had elapsed and *continuing was true.
C18_Witness ==
  /\ waits[1].at = "returned"
  /\ waits[1].ms = ULONG_MAX
  /\ waits[1].canceling = 0
  /\ waits[1].calls = 0
  /\ ~waits[1].elapsed /\ ~waits[1].stopped /\ ~waits[1].canceled

\* Function 1 is inside waitEx( ms, &cont, canceling ) and a flag that
\* interrupts it is set: cont is false, or canceling is &cancel and cancel
\* is true.
Interrupted ==
  /\ waits[1].at = "waiting"
  /\ (cont = FALSE \/ (waits[1].canceling = CancelAddr /\ cancel = TRUE))

\* C19: once another coroutine has set cancel (or cleared cont) while W is
\* suspended in waitEx, W never calls coresume again: it is not at its call
\* of coresume, no step brings it there, and its next evaluation of the
\* predicate, the first thing it does when resumed, returns from waitEx
\* whatever remains of the time-out.
C19_ReturnsWhenResumed ==
  [][ Interrupted =>
        /\ rip # WaitExCall(1)
        /\ rip' # WaitExCall(1)
        /\ (rip = WaitExTest(1) /\ rip' # rip) =>
             (waits'[1].at = "returned" /\ rip' = BodyAddr(1)) ]_vars

\* W has returned from waitEx( 2, &cont, &cancel ) after it had yielded,
\* with cancel set by a peer, cont still true and the time-out not elapsed.
C19_Witness ==
  /\ waits[1].at = "returned"
  /\ waits[1].ms = 2
  /\ waits[1].calls >= 1
  /\ waits[1].canceled /\ ~waits[1].elapsed /\ ~waits[1].stopped

\* The bin C20 states for a value, in unbounded integers.
ClaimBin(h, data) ==
  IF data < h.minBin THEN 0
  ELSE IF data >= h.minBin + h.countsPerBin * h.nBins THEN h.nBins + 1
  ELSE (data - h.minBin) \div h.countsPerBin + 1

\* BinCount( b ) is the number of the added values whose bin, of those a
\* claim states through bin, is b, for every b from 0 to nBins + 1, and 0 for
\* the others.
CountsAgree(bin(_, _)) ==
  \A b \in (-1)..(MaxBins + 3) :
    BinCount(histo, b) =
      IF b >= 0 /\ b <= histo.nBins + 1
      THEN Cardinality({i \in 1..Len(added) : bin(histo, added[i]) = b})
      ELSE 0

\* C20: Add counts a value in exactly one bin, bin 0 below minBin, bin
\* nBins + 1 from minBin + countsPerBin * nBins on, and bin
\* (data - minBin) / countsPerBin + 1 between them, and BinCount returns
\* these counts, and 0 for a bin number outside 0..nBins + 1.
C20_Original == CountsAgree(ClaimBin)

\* The same as long as no added value is UINT_MAX.
C20_BelowUIntMax ==
  (\A i \in 1..Len(added) : added[i] < UINT_MAX) => CountsAgree(ClaimBin)

\* Histogram h( 0, 1, bins ) after h.Add( UINT_MAX ): the value, which lies
\* above the range, is counted in the under-range bin.
C20_Witness ==
  /\ histo.minBin = 0 /\ histo.countsPerBin = 1
  /\ added = << UINT_MAX >>
  /\ BinCount(histo, 0) = 1
  /\ BinCount(histo, histo.nBins + 1) = 0

\* The smallest and the largest of the values of a non-empty sequence.
Smallest(q) == CHOOSE x \in {q[i] : i \in 1..Len(q)} : \A i \in 1..Len(q) : x <= q[i]
Largest(q) == CHOOSE x \in {q[i] : i \in 1..Len(q)} : \A i \in 1..Len(q) : x >= q[i]

\* C21: after one or more Add calls since construction or the last Reset,
\* MinValue() is the smallest and MaxValue() the largest of the values added.
C21_Original ==
  added # << >> =>
    (MinValue(histo) = Smallest(added) /\ MaxValue(histo) = Largest(added))

\* Histogram h( 0, 1, bins ) after a single h.Add( 1 ): MinValue() is 1,
\* MaxValue() is still the constructor's minBin.
C21_Witness ==
  /\ histo.minBin = 0 /\ histo.countsPerBin = 1
  /\ added = << 1 >>
  /\ MinValue(histo) = 1
  /\ MaxValue(histo) = 0

\* C22: the first call of tally adds no entry and every later one adds
\* exactly one, so that after k >= 1 calls of tally, and none of add or
\* reset, NValues() is k - 1; restartTimer adds no entry.
C22_TallyCounts ==
  [][ /\ tih'.op = "restartTimer" => NValues(histo') = NValues(histo)
      /\ tih'.tallies = tih.tallies + 1 =>
           NValues(histo') = NValues(histo) + (IF tih.tallies = 0 THEN 0 ELSE 1)
      /\ (tih'.others = 0 /\ tih'.tallies >= 1) =>
           NValues(histo') = tih'.tallies - 1 ]_vars

\* Three calls of tally, with calls of restartTimer among them and neither
\* add nor reset, have left two entries.
C22_Witness ==
  /\ tih.others = 0 /\ tih.tallies = 3 /\ tih.op = "restartTimer"
  /\ NValues(histo) = 2

\* The words the images ims take in the csa by their descriptors: for each
\* the word count its descriptor states, and one for the descriptor.
RECURSIVE SumSizes(_)
SumSizes(ims) ==
  IF ims = << >> THEN 0
  ELSE DescSize(Last(ims).desc) + 1 + SumSizes(SubSeq(ims, 1, Len(ims) - 1))

\* C23: the csa is a concatenation of images, each followed by its
\* descriptor: read downwards from csavail no descriptor states more words
\* than lie below it, every image is that of a coroutine, the word counts of
\* the descriptors plus one each add up to csavail - csa, and the word at
\* csavail - 1 is the top image's descriptor.
C23_ImagesFillCsa ==
  LET ims == Images(csa)
  IN  /\ \A i \in DOMAIN ims :
           /\ ~ims[i].bad
           /\ Owner(ims[i]) # 0
           /\ DescSize(ims[i].desc) = Len(ims[i].words)
      /\ SumSizes(ims) = Len(csa)
      /\ csa # << >> => csa[Len(csa)] = Last(ims).desc

\* After a spawn by invoke and a switch the csa holds an image that was
\* never restored and one that coresume saved.
C23_Witness ==
  /\ Has("invoke") /\ Has("yield")
  /\ \E i, j \in DOMAIN Images(csa) :
       IsVirgin(Images(csa)[i]) /\ ~IsVirgin(Images(csa)[j])

\* The flag byte of a descriptor word, its top 8 bits.
FlagByte(w) == (w % Pow2(WordBits)) \div Pow2(FlagShift)

\* Coroutine f has been entered.
HasRun(f) == \E i \in DOMAIN events : events[i] = Ev("start", f)

\* The descriptor of every stored image of a coroutine that has not run has
\* the flag byte 0x80 | argc, that of every other stored image the flag
\* byte 0; the first return into a coroutine is its entry, later ones are not.
FlagsTellFirstRestore ==
  \A i \in DOMAIN Images(csa) :
    LET im == Images(csa)[i]
        f == Owner(im)
    IN  IF HasRun(f)
        THEN FlagByte(im.desc) = 0 /\ IsResume(im.words[3])
        ELSE FlagByte(im.desc) = BitOr(128, ArgcOf(f)) /\ IsEntry(im.words[3])

\* The number of times coroutine f has been entered.
Starts(f) == Cardinality({i \in DOMAIN events : events[i] = Ev("start", f)})

\* C24: a stored coroutine that has never run has a descriptor with flag
\* byte 0x80 | argc, one that has been restored before has flag byte 0; so
\* the argument registers are loaded only by the step that enters a
\* coroutine for the first time, which happens once per coroutine.
C24_PrimedOnce ==
  /\ [](FlagsTellFirstRestore /\ \A f \in 1..MaxCo : Starts(f) <= 1)
  /\ [][ argregs' # argregs =>
           /\ Len(events') > Len(events)
           /\ Last(events').k = "start"
           /\ ~HasRun(Last(events').co) ]_vars

\* Function 3, entered with its arguments in the registers, is stored with
\* flag byte 0 and function 1, started later without any, runs: the
\* registers still hold function 3's arguments.
C24_Witness ==
  /\ HasRun(3) /\ 3 \in StoredSet
  /\ Running = 1 /\ IsBody(rip)
  /\ argregs[1] = ArgVal(3, 1)

\* The words of the stack from coresume's saved rbx up to base - 2, and
\* coresume's frame pointer, if the running coroutine calls coresume now.
FrameNow == << rbx, rbp, ResumeAddr(Running) >> \o stack
RbpNow == StackTop - Len(stack) - 2

\* A switching coresume of the running coroutine followed at once by
\* popCoroutine on what it stored: the copy popCoroutine makes is the frame
\* word for word, its destination starts at _BPX, where the frame was read,
\* and ends at base - 2, size + 1 words leave the csa, and no argument
\* register is loaded.
RoundTripNow ==
  LET saved == coresumeSave(<< >>, base, FrameNow, StackTop, RbpNow)
      r == popCoroutine(saved, base, argregs)
  IN  /\ r.img = FrameNow
      /\ r.baseMinusSize = RbpNow - 1
      /\ r.baseMinusSize + r.size = base - 2
      /\ Len(saved) = r.size + 1 /\ r.csa = << >>
      /\ r.regs = argregs

\* The number of coresume calls coroutine f has made.
CallsBy(f) ==
  Cardinality({i \in DOMAIN events : events[i].k \in {"yield", "noop"} /\ events[i].co = f})

\* The local variable in which a coroutine counts its coresume calls holds
\* their number, in the running coroutine's frame and in every frame stored
\* by coresume; a stored frame resumes its owner and reaches from its five
\* words below the owner's frame pointer (coresume's saved rbx and rbp, the
\* return address and the owner's two locals) up to base - 2.
FramesKept ==
  /\ IsBody(rip) => stack[1] = CallsBy(Running)
  /\ \A i \in DOMAIN Images(csa) :
       LET im == Images(csa)[i]
       IN  ~IsVirgin(im) =>
             /\ im.words[3] = ResumeAddr(Owner(im))
             /\ im.words[4] = CallsBy(Owner(im))
             /\ Len(im.words) = (base - 2) - (im.words[2] - 5)

\* C25: a frame saved by a switching coresume and restored by popCoroutine
\* comes back word for word at the addresses [_BPX, base - 2) it was saved
\* from, and the restore takes size + 1 words off the csa.
C25_RoundTrip ==
  /\ IsBody(rip) => RoundTripNow
  /\ FramesKept

\* A coroutine runs in the frame that has been saved and restored twice.
C25_Witness ==
  /\ IsBody(rip)
  /\ Len(events) > 0 /\ Last(events) = Ev("resume", Running)
  /\ stack[1] = 2
  /\ CallsBy(Running) = 2

\* The image and descriptor C26 states for entry address co and the
\* argument words args on System V: a zero word for rbx, the ring base, the
\* entry address, cleanup + CLEANUP_OFFSET, the arguments, two filler words
\* if there is no argument and one if their number is odd, and the
\* descriptor ((0x80 | argc) << 56) | word count.
ClaimImage(b, co, args) ==
  LET argc == Len(args)
      words == << 0, b, co, ToLong(CleanupAddr + CLEANUP_OFFSET) >> \o args
                 \o (IF argc = 0 THEN << FILLER_VALUE, FILLER_VALUE >>
                     ELSE IF argc % 2 = 1 THEN << FILLER_VALUE >> ELSE << >>)
  IN  words \o << ToLong(BitOr(128, argc) * Pow2(FlagShift) + Len(words)) >>

\* What cobegin and invoke push for function f with argc arguments is the
\* image C26 states, of an even number of words, and the same for both.
PushesClaimImage(f, argc) ==
  LET want == ClaimImage(base, EntryAddr(f), Args(f, argc))
  IN  /\ cobeginImage(base, EntryAddr(f), argc, Args(f, argc)) = want
      /\ invokeImage(base, EntryAddr(f), argc, Args(f, argc)) = want
      /\ (Len(want) - 1) % 2 = 0

\* The csa ends with the words x.
EndsWith(c, x) ==
  Len(c) >= Len(x) /\ SubSeq(c, Len(c) - Len(x) + 1, Len(c)) = x

\* C26: for every argument count, the image cobegin or invoke pushes is a
\* zero word, the ring base, the entry address, cleanup + CLEANUP_OFFSET,
\* the arguments in order and the padding, followed by the descriptor
\* ((0x80 | argc) << 56) | word count with an even word count, and cobegin
\* and invoke push the same for the same entry and arguments.
C26_Original ==
  /\ \A f \in 1..MaxCo : given[f] >= 0 => PushesClaimImage(f, given[f])
  /\ (events # << >> /\ Last(events) = Ev("invoke", 2)) =>
       EndsWith(csa, ClaimImage(base, EntryAddr(2), Args(2, given[2])))

\* C26, for argument counts up to 127.
C26_UpTo127 ==
  /\ \A f \in 1..MaxCo :
       (given[f] >= 0 /\ given[f] <= 127) => PushesClaimImage(f, given[f])
  /\ (events # << >> /\ Last(events) = Ev("invoke", 2)) =>
       EndsWith(csa, ClaimImage(base, EntryAddr(2), Args(2, given[2])))

\* cobegin( 1, f, 128, a1, ..., a128 ) has left five words in the csa: the
\* four words below the arguments and a descriptor, no argument.
C26_Witness == given[1] = 128 /\ Len(csa) = 5

\* The k of C27: 1 on System V, 3 on Windows x64.
ClaimK(build) == IF build = "CYGWIN" THEN 3 ELSE 1
\* The k of the source.
SourceK(build) == IF build = "CYGWIN" THEN -1 ELSE 1

\* If the running coroutine calls coresume now and coresume switches, the
\* image it stores has (base - 2) - (rbp - k(build)) words in either build,
\* and in the System V build it is the words of the stack from that address
\* up to base - 2, followed by their number.
SavesFrom(k(_)) ==
  /\ \A build \in Builds :
       SavedSize(build, base, RbpNow) = (base - 2) - (RbpNow - k(build))
  /\ LET saved == coresumeSave(<< >>, base, FrameNow, StackTop, RbpNow)
         size == (base - 2) - (RbpNow - k("SystemV"))
     IN  /\ Len(saved) = size + 1
         /\ Last(saved) = size
         /\ \A i \in 1..size :
              saved[i] = WordAt(FrameNow, StackTop, RbpNow - k("SystemV") + i - 1)

ClearOfCopy(rsp, c, b) ==
  LET r == popCoroutine(c, b, argregs)
  IN  /\ r.size = MaskSize(Last(c))
      /\ Lowered(rsp, c) = rsp - r.size - EXTRA_STACK
      /\ r.baseMinusSize = b - r.size - 2
      /\ Lowered(rsp, c) <= r.baseMinusSize

\* cobegin calls popCoroutine with the stack pointer it called setBase
\* with, two words above the frame pointer setBase stored in base.
CobeginSiteClear ==
  rip = HostCall =>
    \A n \in 1..Min(MaxN, MaxCo) : \A s \in 1..MaxCo :
      cobeginStarts(cobeginCount(coroutineCount, n)) =>
        ClearOfCopy(HostBase + 2, cobeginLoop(csa, HostBase, s, 1, n), HostBase)

\* coresume calls popCoroutine with a stack pointer at or below its saved
\* rbx, on the csa in which it has stored its caller.
CoresumeSiteClear ==
  (IsBody(rip) /\ coresumeSwitches(coroutineCount)) =>
    ClearOfCopy(RbpNow - 1, coresumeSave(csa, base, FrameNow, StackTop, RbpNow), base)

\* cleanup is entered by the ret of the entry function, which leaves the
\* stack pointer two words above that function's frame pointer.
CleanupSiteClear ==
  (/\ IsBody(rip)
   /\ WordAt(stack, StackTop, rbp + 1) = CleanupAddr + CLEANUP_OFFSET
   /\ ~cleanupLast(cleanupCount(coroutineCount))) =>
    ClearOfCopy(rbp + 2, csa, base)

\* C28: cobegin, coresume and cleanup each lower the stack pointer by the
\* masked word count of the top image plus EXTRA_STACK words before they
\* call popCoroutine, and the range [base - size - 2, base - 2) popCoroutine
\* copies to then lies above the stack pointer, clear of popCoroutine's frame.
C28_CopyAboveFrame ==
  CobeginSiteClear /\ CoresumeSiteClear /\ CleanupSiteClear

\* A coroutine whose frame is larger than the image on top of the csa is
\* about to return into cleanup with other coroutines left.
C28_Witness ==
  /\ IsBody(rip)
  /\ WordAt(stack, StackTop, rbp + 1) = CleanupAddr + CLEANUP_OFFSET
  /\ coroutineCount > 1
  /\ Len(stack) > MaskSize(Last(csa))
  /\ Last(csa) < 0

\* The csa contents c end with a whole image: popCoroutine called on them
\* leaves csavail at or above csa.
HasTopImage(c) ==
  /\ Len(c) >= 1
  /\ DescSize(Last(c)) >= 0
  /\ DescSize(Last(c)) + 1 <= Len(c)
  /\ Len(popCoroutine(c, base, argregs).csa) = Len(c) - DescSize(Last(c)) - 1

\* cobegin calls popCoroutine only on a csa with an image, and not at all
\* if it was given no coroutine.
CobeginPopsImage ==
  rip = HostCall =>
    /\ ~cobeginStarts(cobeginCount(coroutineCount, 0))
    /\ \A n \in 1..Min(MaxN, MaxCo) : \A s \in 1..MaxCo :
         cobeginStarts(cobeginCount(coroutineCount, n)) =>
           HasTopImage(cobeginLoop(csa, HostBase, s, 1, n))

\* coresume calls popCoroutine only if the csa held an image before it
\* stored its caller, so that the image it restores is another coroutine's.
CoresumePopsImage ==
  (IsBody(rip) /\ coresumeSwitches(coroutineCount)) =>
    /\ HasTopImage(csa)
    /\ HasTopImage(coresumeSave(csa, base, FrameNow, StackTop, RbpNow))

\* cleanup calls popCoroutine only on a csa with an image.
CleanupPopsImage ==
  (/\ IsBody(rip)
   /\ WordAt(stack, StackTop, rbp + 1) = CleanupAddr + CLEANUP_OFFSET
   /\ ~cleanupLast(cleanupCount(coroutineCount))) =>
    HasTopImage(csa)

\* C29: popCoroutine is called only when the csa holds an image, by cobegin
\* if coroutineCount > 0 (not for n = 0), by coresume if coroutineCount > 1,
\* by cleanup if the decremented coroutineCount is not 0; csavail never
\* drops below csa.
C29_NoUnderflow ==
  CobeginPopsImage /\ CoresumePopsImage /\ CleanupPopsImage

\* The last coroutine of a ring that has switched is about to return into
\* cleanup with the csa empty.
C29_Witness ==
  /\ IsBody(rip)
  /\ WordAt(stack, StackTop, rbp + 1) = CleanupAddr + CLEANUP_OFFSET
  /\ coroutineCount = 1 /\ csa = << >>
  /\ Has("yield") /\ Has("return")

\* The step in which the running coroutine returns from its entry function
\* while other coroutines remain.
ReturnsAmongOthers ==
  /\ IsBody(rip) /\ coroutineCount > 1
  /\ Len(events') > Len(events)
  /\ events'[Len(events) + 1] = Ev("return", Running)

\* C30: when a coroutine returns and others remain, coroutineCount drops
\* by exactly 1, the coroutine that runs next is the owner of the image on
\* top of the csa, which is the one a coresume of the returning coroutine
\* would have switched to, and the other stored images keep their order.
C30_ReturnResumesTop ==
  [][ ReturnsAmongOthers =>
        /\ coroutineCount' = coroutineCount - 1
        /\ IsBody(rip')
        /\ Running' = Stored[Len(Stored)]
        /\ Running' =
             Owner(Last(Images(coresumeSave(csa, base, FrameNow, StackTop, RbpNow))))
        /\ Last(events').k \in {"start", "resume"} /\ Last(events').co = Running'
        /\ Stored' = SubSeq(Stored, 1, Len(Stored) - 1) ]_vars

\* A coroutine has returned while two others were stored, one of them
\* saved by coresume, and the one that was on top runs.
C30_Witness ==
  /\ Len(events) >= 2
  /\ events[Len(events) - 1].k = "return"
  /\ Last(events).k \in {"start", "resume"}
  /\ Has("yield")
  /\ coroutineCount = 2 /\ Len(Stored) = 1

\* ------------------------------------------------------------------ C31
\* The coroutine that runs when event i is recorded: the one of the last
\* first entry or resumption before it.
RunningAt(i) ==
  LET js == {j \in 1..(i - 1) : events[j].k \in {"start", "resume"}}
  IN  IF js = {} THEN 0 ELSE events[CHOOSE j \in js : \A k \in js : k <= j].co
IsInvoke(i) == i \in DOMAIN events /\ events[i].k = "invoke"
\* The invoker's next switch after its invoke of event i: its next switching
\* coresume or its return (0 while it has made neither).
NextSwitch(i) ==
  LET f == RunningAt(i)
      js == {j \in (i + 1)..Len(events) : events[j] \in {Ev("yield", f), Ev("return", f)}}
  IN  IF js = {} THEN 0 ELSE CHOOSE j \in js : \A k \in js : j <= k
\* The coroutine the invoker added last before its switch of event s.
LastInvoked(s) ==
  LET js == {j \in 1..(s - 1) : events[j].k = "invoke"}
  IN  events[CHOOSE j \in js : \A k \in js : k <= j].co
StartOf(g) == {t \in DOMAIN events : events[t] = Ev("start", g)}

\* C31 as stated: a coroutine added by invoke does not run before the
\* invoker's next switch (its next switching coresume or its return), and
\* at that switch it is the very next coroutine to run.
C31_Original ==
  \A i \in DOMAIN events : IsInvoke(i) =>
    LET g == events[i].co
        s == NextSwitch(i)
    IN  /\ \A t \in StartOf(g) : s # 0 /\ t > s
        /\ s # 0 => events[s + 1] = Ev("start", g)

\* C31, amended: a coroutine added by invoke does not run before the
\* invoker's next switch; the coroutine that runs at that switch is the one
\* the invoker added last before it, which is the new coroutine if the
\* invoker has not called invoke again; and in every case the new coroutine
\* has its first turn before any coroutine that was on the ring at the
\* invoke, the invoker included, has a turn.
C31_LastInvokedNext ==
  \A i \in DOMAIN events : IsInvoke(i) =>
    LET g == events[i].co
        s == NextSwitch(i)
    IN  /\ \A t \in StartOf(g) : s # 0 /\ t > s
        /\ s # 0 => /\ events[s + 1] = Ev("start", LastInvoked(s))
                    /\ (~\E j \in (i + 1)..(s - 1) : IsInvoke(j))
                         => events[s + 1] = Ev("start", g)
        /\ \A u \in (i + 1)..Len(events) :
             (events[u].k \in {"start", "resume"} /\ events[u].co \in AliveAt(i))
               => \E t \in StartOf(g) : t < u

\* The invoker has added two coroutines in a row and then switched by
\* coresume: the second has started at once, the first after it, and the
\* invoker has been resumed after both.
C31_Witness ==
  /\ \E i \in DOMAIN events :
       /\ IsInvoke(i) /\ IsInvoke(i + 1)
       /\ NextSwitch(i) = i + 2 /\ events[i + 2].k = "yield"
       /\ events[i + 3] = Ev("start", events[i + 1].co)
       /\ \E t \in StartOf(events[i].co) :
            \E u \in (t + 1)..Len(events) :
               events[u].k \in {"start", "resume"} /\ events[u].co \in AliveAt(i)

\* ------------------------------------------------------------------ C32
\* A step in which popCoroutine restores an image that lay in the csa
\* before the step (a switching coresume, or cleanup with coroutines left),
\* that image, and a step in which cobegin starts its first coroutine.
PopStep == csa # << >> /\ csa' # csa /\ coroutineCount' <= coroutineCount
Popped == Images(csa)[Len(Images(csa))]
CobeginStartStep == rip = HostCall /\ rip' # HostCall /\ rip' # HostRet
\* Such a step is a first entry if the image restored is a virgin one.
FirstEntryStep == CobeginStartStep \/ (PopStep /\ IsVirgin(Popped))
\* The value popCoroutine's return sequence (pop rbx; pop rbp; ret) loads
\* into rbp in such a step: on a first entry the entry function's prologue
\* pushes it at once, and it is the word its new frame pointer points to.
RestoredRbp == IF FirstEntryStep THEN stack'[3] ELSE rbp'

\* The saved frame pointers found from frame pointer p in the words seq that
\* end below base - 2: in the frame of an entry function the saved one is
\* base; in that of waitEx it is the frame pointer of the entry function
\* that called it.
LinksToBase(seq, p, nested) ==
  LET up == WordAt(seq, StackTop, p)
  IN  IF nested
      THEN p < up /\ up < base /\ WordAt(seq, StackTop, up) = base
      ELSE p < base /\ up = base
InWaitEx(addr) == IsWaitExTest(addr) \/ IsWaitExCall(addr)
CoroutineRuns == rip # HostCall /\ rip # HostRet

YieldStep ==
  /\ Len(events') = Len(events) + 2
  /\ events'[Len(events) + 1].k = "yield"

\* C33: a switching coresume leaves as many images in the csa as it found;
\* the bottom one is new: the caller's frame (its saved rbx and rbp, the
\* return address of the call, and its stack with the call counted) under a
\* descriptor with flag byte 0; the images above it are the old ones but the
\* top one, word for word with their descriptors and in their old order;
\* the old top image, which is gone, is that of the coroutine that runs.
C33_OnlyBottomAndTop ==
  [][YieldStep =>
       LET old == Images(csa)
           new == Images(csa')
           n == Len(old)
           f == events'[Len(events) + 1].co
           frame == << rbx, rbp, ResumeAddr(f) >> \o [stack EXCEPT ![1] = @ + 1]
       IN  /\ n >= 1 /\ Len(new) = n
           /\ ~new[1].bad
           /\ new[1].words = frame
           /\ new[1].desc = Len(frame) /\ FlagByte(new[1].desc) = 0
           /\ \A i \in 1..(n - 1) : new[i + 1] = old[i]
           /\ Owner(old[n]) = events'[Len(events')].co
           /\ csa' = frame \o << Len(frame) >>
                       \o SubSeq(csa, 1, Len(csa) - Len(old[n].words) - 1)
    ]_vars

\* A coresume has just switched with a virgin image above the caller's,
\* flag byte and all.
C33_Witness ==
  /\ Len(events) >= 2 /\ events[Len(events) - 1].k = "yield"
  /\ Len(Images(csa)) >= 2
  /\ Owner(Images(csa)[1]) = events[Len(events) - 1].co
  /\ FlagByte(Images(csa)[1].desc) = 0
  /\ IsVirgin(Images(csa)[2]) /\ FlagByte(Images(csa)[2].desc) # 0

\* ------------------------------------------------------------------ C34
\* The module variables and the host's registers as they are before the
\* first call of cobegin, base (which every call sets anew) left aside.
KernelAtRest ==
  /\ coroutineCount = 0
  /\ csa = << >>
  /\ stack = << >> /\ rbp = HostRBP /\ rbx = 0
\* A step in which cobegin is called after an earlier call has returned.
LaterCallStep == rip = HostCall /\ base = HostBase /\ rip' # HostCall
\* What a call of cobegin with n entry functions, the first one s, makes of
\* the kernel if it is the first call.
AsFirstCall(n, s) ==
  LET c == cobeginLoop(<< >>, HostBase, s, 1, n)
  IN  /\ coroutineCount' = n
      /\ base' = HostBase
      /\ IF n = 0
         THEN csa' = << >> /\ rip' = HostRet /\ stack' = << >> /\ rbp' = HostRBP
         ELSE LET r == popCoroutine(c, HostBase, Fill(IN_REGISTERS_COUNT, 0))
                  l == Land(r.img, r.regs, StackTop)
              IN  /\ csa' = r.csa /\ argregs' = r.regs
                  /\ rip' = l.rip /\ rbp' = l.rbp /\ stack' = l.stack
                  /\ FuncOf(rip') = NthFunc(s, n)

\* C34: whenever cobegin has returned to the host, coroutineCount is 0 and
\* the csa holds no word (csavail = csa), with the host's stack and frame
\* pointer as before the call; and a call of cobegin made after that does
\* to the kernel what a first call with the same arguments does.
C34_ReturnsToInitial ==
  /\ [](rip \in {HostRet, HostCall} => KernelAtRest)
  /\ [][LaterCallStep =>
          \E n \in 0..Min(MaxN, MaxCo) : \E s \in 1..MaxCo :
             /\ Len(SelectSeq(events', LAMBDA e : e.k = "spawn")) = n
             /\ n > 0 => events'[1] = Ev("spawn", s)
             /\ AsFirstCall(n, s)
       ]_vars

\* cobegin has returned to the host after a call in which coroutines were
\* started, switched out by coresume, resumed, and returned.
C34_Witness ==
  /\ rip = HostRet
  /\ base = HostBase
  /\ Has("yield") /\ Has("resume") /\ Has("return")
  /\ Len(Spawns) >= 2

\* ------------------------------------------------------------------ C35
\* The sum of BinCount( b ) over b = 0 .. last, and the largest of them.
RECURSIVE SumBins(_, _)
SumBins(h, last) ==
  IF last < 0 THEN 0 ELSE BinCount(h, last) + SumBins(h, last - 1)
LargestBin(h) ==
  CHOOSE m \in {BinCount(h, b) : b \in 0..(h.nBins + 1)} :
    \A b \in 0..(h.nBins + 1) : BinCount(h, b) <= m
BinsMatch ==
  /\ SumBins(histo, histo.nBins + 1) = NValues(histo)
  /\ MaxBinCount(histo) = LargestBin(histo)

\* C35 as stated: after any sequence of Add and Reset calls the bin counts
\* of bins 0 to nBins + 1 add up to NValues(), and MaxBinCount() is the
\* largest of them.
C35_Original == BinsMatch

\* C35 for at most UINT_MAX values added since construction or the last
\* Reset: the bin counts add up to NValues() and MaxBinCount() is the
\* largest of them.
C35_BelowWrap == Len(added) <= UINT_MAX => BinsMatch

\* UINT_MAX + 1 values have been added, all of them 0: NValues() and every
\* bin count are 0 again and MaxBinCount() is UINT_MAX.
C35_Witness ==
  /\ Len(added) = UINT_MAX + 1
  /\ \A i \in DOMAIN added : added[i] = 0
  /\ NValues(histo) = 0
  /\ LargestBin(histo) = 0
  /\ MaxBinCount(histo) = UINT_MAX

\* ------------------------------------------------------------------ C36
\* The 1-based sample indices, in order, of the added values that Add has
\* taken for over range.
IsOver(h, data) == rawBin(h, data) > h.nBins
OverAt ==
  SelectSeq([i \in 1..Len(added) |-> i], LAMBDA i : IsOver(histo, added[i]))
\* Entry j of overN and overValueN holds the index and the value of the
\* j-th over-range value, and overN[j] is 0 if there is no j-th one; every
\* over-range value is counted in bin nBins + 1.
RecordsFirstOvers ==
  /\ \A j \in 1..OVERN_TRACE_COUNT :
       IF j <= Len(OverAt)
       THEN /\ histo.overN[j] = OverAt[j]
            /\ histo.overValueN[j] = added[OverAt[j]]
       ELSE histo.overN[j] = 0
  /\ BinCount(histo, histo.nBins + 1) = Len(OverAt)
AddStep == Len(added') = Len(added) + 1
ResetStep == added # << >> /\ added' = << >>
\* Add leaves every recorded entry as it is; Reset zeroes overN.
KeepsAndClears ==
  /\ AddStep => \A j \in 1..OVERN_TRACE_COUNT :
                   histo.overN[j] # 0 =>
                     /\ histo'.overN[j] = histo.overN[j]
                     /\ histo'.overValueN[j] = histo.overValueN[j]
  /\ ResetStep => \A j \in 1..OVERN_TRACE_COUNT : histo'.overN[j] = 0

\* C36 as stated: overN and overValueN hold, in order of occurrence, the
\* 1-based sample index and the value of the first OVERN_TRACE_COUNT added
\* values that fall in the over-range bin; later ones are counted in bin
\* nBins + 1 only; Add never overwrites a recorded entry, and Reset clears
\* overN.
C36_Original == []RecordsFirstOvers /\ [][KeepsAndClears]_vars

\* C36 for at most UINT_MAX values added since construction or the last
\* Reset: the first OVERN_TRACE_COUNT over-range values are recorded with
\* index and value in order, later ones are counted only, Add overwrites no
\* recorded entry and Reset clears overN.
C36_BelowWrap ==
  [](Len(added) <= UINT_MAX => RecordsFirstOvers) /\ [][KeepsAndClears]_vars

\* Sample UINT_MAX + 1 was over range and recorded with index 0, and the
\* next over-range value has taken its entry, with index 1.
C36_Witness ==
  /\ Len(added) = UINT_MAX + 2
  /\ ~IsOver(histo, added[UINT_MAX])
  /\ IsOver(histo, added[UINT_MAX + 1]) /\ IsOver(histo, added[UINT_MAX + 2])
  /\ histo.overN[1] = 1 /\ histo.overN[2] = 0
  /\ BinCount(histo, histo.nBins + 1) = 2

============================================================================
